---- MODULE Spec2Model ----
(***************************************************************************)
(* A model of the resource storage engine (mongoSession: Put, Delete,      *)
(* ConditionalDelete, PostWithID, ConditionalPut) and of the bundle        *)
(* processor (BatchController.Post / postInner / doRequest) of the FHIR    *)
(* server.  One resource type is modelled: the current collection `cur`    *)
(* and the previous-version collection `prev` of that type.                *)
(*                                                                         *)
(* Every database round trip of the code (FindOne, FindOneAndReplace,      *)
(* ReplaceOne, DeleteOne, DeleteMany, InsertOne, Find) is one atomic step; *)
(* requests interleave between round trips.  meta.lastUpdated is not       *)
(* modelled; a document is its meta.versionId (a string) and its body.     *)
(* No interceptors are registered (the server registers none).             *)
(***************************************************************************)
EXTENDS Integers, Sequences, FiniteSets, TLC

\* ------------------------------------------------------------------ bounds
Ids == {"i1", "i2"}          \* resource ids a request may name or be given
Bodies == {"x", "y"}         \* resource bodies (also the value a query matches)
NamedIds == {"i1"}           \* the ids clients name in PUT /T/{id} and DELETE /T/{id}
Clients == {"c1", "c2"}      \* concurrently running top-level requests
MaxOps == 3                  \* requests the clients issue altogether
MaxEntries == 2              \* entries of a bundle
MaxConcurrency == 2          \* largest Config.BatchConcurrency
MaxFaults == 1               \* database round trips of a bundle that fail
BundleClientOps == 1         \* requests a client issues while a bundle is processed
RetryClientOps == 3          \* requests a client issues while a bundle is tried again
ReadOps == 3                 \* requests the clients issue when reads are among them
BatchEntries == 3            \* entries of a batch that runs its entries concurrently
MaxTotal == 6                \* largest number of resources a search matches
MaxCount == 3                \* largest _count a search request names

\* the goroutine running BatchController.Post, and the goroutine of entry i
Handler == "b"
GoNames == <<"g1", "g2", "g3", "g4">>
Goroutine(i) == GoNames[i]
\* postInner, line 513: one goroutine for each entry of the largest bundle
MaxGoroutines == IF BatchEntries > MaxEntries THEN BatchEntries ELSE MaxEntries
Goroutines == {Goroutine(i) : i \in 1..MaxGoroutines}
BundleProcs == {Handler} \cup Goroutines

\* ------------------------------------------------------------- primitives
\* strconv.Itoa / strconv.Atoi on the version numbers the model reaches
Digits == <<"0", "1", "2", "3", "4", "5", "6", "7", "8", "9", "10", "11", "12">>
Itoa(n) == Digits[n + 1]
Atoi(s) == CHOOSE n \in 0..(Len(Digits) - 1) : Digits[n + 1] = s

NoVid == "none"              \* the document has no meta.versionId element
NoBody == "nobody"
NoDoc == [vid |-> "nodoc", body |-> "nodoc"]     \* mongo.ErrNoDocuments
NilVer == -1                 \* var curVersionId *int = nil
NoCond == ""                 \* conditionalVersionId == ""

\* If-Match values a request may carry (already converted by ETagToVersionId)
CondVals == {NoCond, "0", "1"}

\* getVersionIdFromResource: (hasVersionId, versionIdInt, versionIdStr)
getVersionIdFromResource(doc) ==
    IF doc.vid = NoVid
    THEN [has |-> FALSE, int |-> -1, str |-> ""]
    ELSE [has |-> TRUE, int |-> Atoi(doc.vid), str |-> doc.vid]

\* setVermongoId: the key {_id: id, _version: v} of an archived version;
\* a deletion record's key additionally carries _deleted: 1
VermongoKey(id, v) == [id |-> id, version |-> v, deleted |-> FALSE]
DeletionKey(id, v) == [id |-> id, version |-> v, deleted |-> TRUE]

\* FindOneAndReplace(key, doc, upsert = true) on the previous collection
UpsertPrev(pv, key, doc) ==
    {r \in pv : r.key # key} \cup {[key |-> key, doc |-> doc]}

\* a marshalling under which the content changes with the version
NewDoc_Versioned(body, versionId) ==
    [vid |-> Itoa(versionId), body |-> IF versionId > 1 THEN "y" ELSE body]

\* updateResourceMeta(resource, versionId) followed by marshalling
NewDoc(body, versionId) == [vid |-> Itoa(versionId), body |-> body]

\* ErrorToOpOutcome: the HTTP status of an error
ErrorToOpOutcome(err) == IF err = "Conflict" THEN 409 ELSE 500

\* ------------------------------------------------------------------- state
VARIABLES
    enableHistory,  \* mongoDataAccessLayer.enableHistory (fixed at construction)
    cur,            \* current collection: id -> document or NoDoc
    prev,           \* previous-version collection: set of [key, doc]
    pc,             \* where each request is in its handler
    op,             \* the request: [kind, id, cond, body, query, no]
    loc,            \* the handler's local variables
    res,            \* what the handler returned: [err, createdNew, newVersionId, status]
    opsLeft,        \* requests the clients may still issue
    raced,          \* a racing upsert of the same previous-version key landed first
    superseded,     \* history: versions that were current and were replaced or deleted
    accepted,       \* history: per id, [last: the versionId the last accepted write was given,
                    \*          first: that of the first, puts: the accepted Post/Put writes]
    seen,           \* history: per request, the other requests that touched its id meanwhile
    usedIds,        \* history: ids that were ever named or generated
    tx,             \* the handler's session: inTransaction, the transaction's snapshot and view,
                    \* and whether the session was started and ended
    visible,        \* history: a write of the bundle has reached the shared collections
    batchConcurrency, \* Config.BatchConcurrency
    bundle,         \* the bundle as received: [type, entry, prov]
    entries,        \* postInner's sorted entries, with createStatus and Response
    bpc,            \* where BatchController.Post is
    bloc,           \* its locals: [attemptsLeft, idx, proceed, concurrency]
    gpc,            \* where the goroutine of each entry is
    sem,            \* values in the semaphore channel
    reply,          \* the response of postInner / what Post sent
    order,          \* history: the entries in the order their operations started
    completed,      \* history: the entries whose operations have returned
    faults,         \* failing round trips left
    provenances,    \* Provenance resources in the shared store
    mx,             \* the mutex middleware: its coordinator and the requests passing it
    pg,             \* a search request, the result set behind it and its paging links
    rs              \* a models2.Resource and what was last done with it

\* the variables of BatchController.Post
bvarsPost == <<batchConcurrency, bundle, entries, bpc, bloc, gpc, sem, reply,
               order, completed, faults, provenances>>

\* what no storage operation changes
bvars == <<bvarsPost, mx, pg, rs>>

vars == <<enableHistory, cur, prev, pc, op, loc, res, opsLeft, raced,
          superseded, accepted, seen, usedIds, tx, visible, bvars>>

Procs == Clients \cup BundleProcs

NoOp == [kind |-> "none", id |-> "", cond |-> NoCond, body |-> NoBody, query |-> "", no |-> 0]
NoLoc == [currentDoc |-> NoDoc, curVersionId |-> NilVer, newVersionId |-> 1,
          ids |-> {}, entries |-> {}, elem |-> "", tombs |-> {},
          entryList |-> <<>>, totalDocs |-> 0, matching |-> {}]
NoRes == [err |-> "", createdNew |-> FALSE, newVersionId |-> "", status |-> 0, doc |-> NoDoc]

\* documents stored before versioning was supported carry no meta.versionId
LegacyDoc(b) == [vid |-> NoVid, body |-> b]

\* what the collections hold when the clients arrive: nothing ("empty"), or
\* a document without meta.versionId ("legacy"), or the traces of a resource
\* that was created by a PUT with body "x" and then deleted ("deleted"), or
\* one or two resources created with body "x" ("one", "two")
InitKinds == {"empty", "legacy", "deleted"}

NoTx == [active |-> FALSE, snapCur |-> <<>>, snapPrev |-> {}, cur |-> <<>>, prev |-> {},
         ids |-> {}, keys |-> {}, prov |-> FALSE,
         target |-> <<>>, server |-> "none", abort |-> "", session |-> "none"]
NoBundle == [type |-> "", entry |-> <<>>, prov |-> ""]
NoBloc == [attemptsLeft |-> 0, idx |-> 0, proceed |-> TRUE, concurrency |-> 1,
           refMap |-> <<>>]
NoReply == [kind |-> "none", status |-> 0, err |-> "", body |-> ""]

\* the requests that pass the mutex middleware; none has arrived
MutexRequests == {"r1", "r2", "r3"}
NoMx == [header |-> [r \in MutexRequests |-> [mutexName |-> "", db |-> ""]],
         at |-> [r \in MutexRequests |-> "none"],
         mutexes |-> <<>>,
         coordinator |-> [at |-> "select", to |-> ""]]

\* no search has been requested
NoLink == [present |-> FALSE, offset |-> 0, count |-> 0]
NoLinks == [self |-> NoLink, first |-> NoLink, previous |-> NoLink, next |-> NoLink,
            last |-> NoLink]
NoPg == [total |-> 0, countTotalResults |-> TRUE,
         offset |-> [given |-> FALSE, value |-> 0], count |-> [given |-> FALSE, value |-> 0],
         at |-> "none", numResults |-> 0, links |-> NoLinks, steps |-> 0]

\* no request is at the mutex middleware and no search is under way
\* no cached document (cachedBson == nil), nothing serialized yet
NoBson == [encrypted |-> FALSE, id |-> "", versionId |-> "", lastUpdated |-> "", body |-> "nobson"]
NoJson == [id |-> "", versionId |-> "", lastUpdated |-> "", body |-> "nojson", moved |-> FALSE]

\* no Resource has been built
NoRs == [jsonBytes |-> NoJson, id |-> "", versionId |-> "", lastUpdated |-> "",
         idChanged |-> FALSE, versionIdChanged |-> FALSE, lastUpdatedChanged |-> FALSE,
         transformReferencesMap |-> <<>>, whatToEncrypt |-> FALSE,
         cachedBson |-> NoBson, call |-> "none", json |-> NoJson]

InitAside == mx = NoMx /\ pg = NoPg /\ rs = NoRs

\* no bundle has arrived
InitBatch ==
    /\ tx = NoTx
    /\ visible = FALSE
    /\ bundle = NoBundle
    /\ entries = <<>>
    /\ bpc = "idle"
    /\ bloc = NoBloc
    /\ gpc = [i \in 1..MaxGoroutines |-> "none"]
    /\ sem = 0
    /\ reply = NoReply
    /\ order = <<>>
    /\ completed = {}
    /\ provenances = 0

InitStore(kinds, requests) ==
    /\ \E k \in kinds :
        /\ cur = [i \in Ids |-> IF i \in NamedIds /\ k = "legacy" THEN LegacyDoc("x")
                                ELSE IF k = "two" \/ (i \in NamedIds /\ k = "one")
                                THEN NewDoc("x", 1) ELSE NoDoc]
        /\ prev = IF k = "deleted"
                  THEN UNION {{[key |-> VermongoKey(i, 1), doc |-> NewDoc("x", 1)],
                               [key |-> DeletionKey(i, 2), doc |-> [vid |-> Itoa(2), body |-> NoBody]]}
                              : i \in NamedIds}
                  ELSE {}
        /\ superseded = IF k = "deleted"
                        THEN {[id |-> i, doc |-> NewDoc("x", 1)] : i \in NamedIds} ELSE {}
        /\ accepted = [i \in Ids |-> IF i \in NamedIds /\ k = "deleted"
                                      THEN [last |-> 2, first |-> 1, puts |-> 1, dels |-> 1]
                                      ELSE IF k = "two" \/ (i \in NamedIds /\ k = "one")
                                      THEN [last |-> 1, first |-> 1, puts |-> 1, dels |-> 0]
                                      ELSE [last |-> 0, first |-> 0, puts |-> 0, dels |-> 0]]
        /\ usedIds = IF k = "empty" THEN {} ELSE IF k = "two" THEN Ids ELSE NamedIds
    /\ pc = [p \in Procs |-> "idle"]
    /\ op = [p \in Procs |-> NoOp]
    /\ loc = [p \in Procs |-> NoLoc]
    /\ res = [p \in Procs |-> NoRes]
    /\ opsLeft = requests
    /\ raced = [p \in Procs |-> FALSE]
    /\ seen = [p \in Procs |-> {}]

\* DefaultConfig.EnableHistory / the enableHistory flag default
Init ==
    /\ enableHistory = TRUE
    /\ batchConcurrency = 1
    /\ faults = 0
    /\ InitStore(InitKinds, MaxOps)
    /\ InitBatch
    /\ InitAside

\* --------------------------------------------------------------- helpers
\* Query.Options(): the page size is the query's _count, by default 100
DefaultCount == 100
CountedQueries == {"x&_count=1"}
Count(query) == IF query \in CountedQueries THEN 1 ELSE DefaultCount

\* the search criteria of a query, which match on the body
Criteria(query) == IF query = "x&_count=1" THEN "x" ELSE query
Matching(c, query) == {i \in Ids : c[i] # NoDoc /\ c[i].body = Criteria(query)}

\* the order in which a collection is read
IdOrder == <<"i1", "i2">>

\* the first `count` of the ids, in the order of the collection
Page(ids, count) ==
    {IdOrder[k] : k \in {k \in DOMAIN IdOrder :
                            /\ IdOrder[k] \in ids
                            /\ Cardinality({j \in 1..k : IdOrder[j] \in ids}) <= count}}

\* searcher.Search: the matching documents, limited to one page
Search(c, query) == Page(Matching(c, query), Count(query))

\* FindIDs: the ids of the documents searcher.Search returns
FindIDs(c, query) == Search(c, query)

\* primitive.NewObjectID(): an id of the pool that nobody was given before
FreshFrom(pool) == pool \ usedIds
ObjectIDFrom(pool) == CHOOSE i \in FreshFrom(pool) : TRUE

\* primitive.NewObjectID(): an id nobody names and nobody was given before
FreshIds == (Ids \ NamedIds) \ usedIds
NewObjectID == CHOOSE i \in FreshIds : TRUE

\* the requests that have started touching id i and have not returned
MidOpOn(q, i) ==
    \/ pc[q] \in {"put_archive", "put_write", "del_archive", "del_tomb", "del_one"}
       /\ op[q].id = i
    \/ pc[q] \in {"cd_search", "cd_hfind", "cd_harch", "cd_htomb", "cd_delmany"}
OpId(q) == <<q, op[q].no>>

\* where a request stands between two round trips of which the second
\* relies on what the first one read
BetweenReads == {"put_archive", "put_write", "get_prev", "hist_prev"}

\* proc p makes a round trip that touches the ids in `touched`
Touch(p, touched) ==
    seen' = [q \in Procs |->
               IF q # p /\ pc[q] \in BetweenReads /\ op[q].id \in touched
               THEN seen[q] \cup {OpId(p)} ELSE seen[q]]

\* the same, for the round trip with which p's Put reads the current document
TouchFirst(p, i) ==
    seen' = [q \in Procs |->
               IF q = p THEN {OpId(r) : r \in {r \in Procs \ {p} : MidOpOn(r, i)}}
               ELSE IF pc[q] \in BetweenReads /\ op[q].id = i
               THEN seen[q] \cup {OpId(p)} ELSE seen[q]]

Return(p, r) ==
    /\ pc' = [pc EXCEPT ![p] = "done"]
    /\ res' = [res EXCEPT ![p] = r]

Accepted(a, kind, version) ==
    [last |-> version,
     first |-> IF a.first = 0 /\ a.last = 0 THEN version ELSE a.first,
     puts |-> IF kind = "Delete" THEN a.puts ELSE a.puts + 1,
     dels |-> IF kind = "Delete" THEN a.dels + 1 ELSE a.dels]
Accept(i, kind, version) == [accepted EXCEPT ![i] = Accepted(@, kind, version)]
Supersede(i, doc) == IF doc = NoDoc THEN superseded ELSE superseded \cup {[id |-> i, doc |-> doc]}

\* mongoSession.inTransaction of the session p works through: only the
\* handler's session ever starts a transaction
InTx(p) == p = Handler /\ tx.active

\* the collections as the session of p reads them: a transaction reads its
\* snapshot and its own writes
DbCur(p) == IF InTx(p) THEN tx.cur ELSE cur
DbPrev(p) == IF InTx(p) THEN tx.prev ELSE prev

\* the documents and the previous-version keys the open transaction has written
TxIds == IF tx.active THEN tx.ids ELSE {}
TxKeys == IF tx.active THEN tx.keys ELSE {}
RecordsAt(pv, key) == {r \in pv : r.key = key}

\* a write through the session of p that leaves the collections it sees as
\* c and pv.  In a transaction the write stays in the transaction's view and
\* is refused (WriteConflict) when the document changed after the snapshot;
\* outside, it waits for a transaction that has written the same document.
DbWrite(p, c, pv) ==
    LET ids == {i \in Ids : c[i] # DbCur(p)[i]}
        keys == {r.key : r \in pv \ DbPrev(p)}
    IN IF InTx(p)
       THEN /\ \A i \in ids : cur[i] = tx.snapCur[i]
            /\ \A k \in keys : RecordsAt(prev, k) = RecordsAt(tx.snapPrev, k)
            /\ tx' = [tx EXCEPT !.cur = c, !.prev = pv,
                                !.ids = @ \cup ids, !.keys = @ \cup keys]
            /\ UNCHANGED <<cur, prev, visible>>
       ELSE /\ ids \cap TxIds = {} /\ keys \cap TxKeys = {}
            /\ cur' = c /\ prev' = pv
            /\ visible' = (visible \/ (p \in BundleProcs /\ (ids # {} \/ keys # {})))
            /\ UNCHANGED tx

\* the history variables follow the writes made outside transactions
Hist(p, s, a) ==
    IF InTx(p)
    THEN UNCHANGED <<superseded, accepted>>
    ELSE superseded' = s /\ accepted' = a

OkPut(created) ==
    [err |-> "", createdNew |-> created, newVersionId |-> "",
     status |-> IF created THEN 201 ELSE 200, doc |-> NoDoc]
Fail(err) ==
    [err |-> err, createdNew |-> FALSE, newVersionId |-> "", status |-> ErrorToOpOutcome(err),
     doc |-> NoDoc]

\* ------------------------------------------------------------------- Put
\* a Put that never compares If-Match with the current version
IfMatchConflict_Never(cond, curVersionIdStr) == FALSE

\* Put, line 522: the If-Match comparison (a comparison of strings)
IfMatchConflict(cond, curVersionIdStr) == cond # NoCond /\ cond # curVersionIdStr

\* a ReplaceOne that selects by _id alone
SelectorMatches_ById(doc, curVersionId) == doc # NoDoc

\* Put, lines 582-589: the selector of the atomic check-then-update
SelectorMatches(doc, curVersionId) ==
    /\ doc # NoDoc
    /\ IF curVersionId = 0 THEN doc.vid = NoVid ELSE doc.vid = Itoa(curVersionId)

\* a client issues its next request
Begin(p, request) ==
    /\ pc[p] \in {"idle", "done"} /\ opsLeft > 0
    /\ op' = [op EXCEPT ![p] = [request EXCEPT !.no = opsLeft]]
    /\ opsLeft' = opsLeft - 1
    /\ loc' = [loc EXCEPT ![p] = NoLoc]
    /\ raced' = [raced EXCEPT ![p] = FALSE]
    /\ seen' = [seen EXCEPT ![p] = {}]

\* Put, lines 478-483: with history disabled no version is read
PutEntry(p, cond) ==
    IF enableHistory
    THEN pc' = [pc EXCEPT ![p] = "put_find"] /\ res' = [res EXCEPT ![p] = NoRes]
    ELSE IF cond # NoCond
         THEN Return(p, Fail("Error"))
         ELSE pc' = [pc EXCEPT ![p] = "put_write"] /\ res' = [res EXCEPT ![p] = NoRes]

\* UpdateHandler: PUT /T/{id} [If-Match], up to Put's first round trip
UpdateRequest(p, conds, bodies) ==
    /\ \E i \in NamedIds, c \in conds, b \in bodies :
        /\ Begin(p, [kind |-> "Put", id |-> i, cond |-> c, body |-> b, query |-> "", no |-> 0])
        /\ usedIds' = usedIds \cup {i}
        /\ PutEntry(p, c)
    /\ UNCHANGED <<enableHistory, cur, prev, tx, visible, superseded, accepted, bvars>>

UpdateHandler(p) == UpdateRequest(p, CondVals, Bodies)

\* Put, lines 485-524: read the current document, compare If-Match
PutFindCurrent(p) ==
    /\ pc[p] = "put_find"
    /\ LET i == op[p].id
           doc == DbCur(p)[i]
           v == getVersionIdFromResource(doc)
           curTemp == IF v.has THEN v.int ELSE 0
           newV == IF v.has THEN v.int + 1 ELSE 1
       IN IF doc = NoDoc
          THEN IF op[p].cond # NoCond
               THEN Return(p, Fail("Conflict")) /\ UNCHANGED loc
               ELSE /\ pc' = [pc EXCEPT ![p] = "put_write"]
                    /\ UNCHANGED <<loc, res>>
          ELSE IF IfMatchConflict(op[p].cond, v.str)
               THEN Return(p, Fail("Conflict")) /\ UNCHANGED loc
               ELSE /\ pc' = [pc EXCEPT ![p] = "put_archive"]
                    /\ loc' = [loc EXCEPT ![p].currentDoc = doc,
                                          ![p].curVersionId = curTemp,
                                          ![p].newVersionId = newV]
                    /\ UNCHANGED res
    /\ TouchFirst(p, op[p].id)
    /\ UNCHANGED <<enableHistory, cur, prev, tx, visible, op, opsLeft, raced, superseded, accepted, usedIds, bvars>>

ArchivePcs == {"put_archive", "del_archive", "cd_harch"}

\* the id whose history p is writing
TargetId(q) == IF op[q].kind = "ConditionalDelete" THEN loc[q].elem ELSE op[q].id

\* an upsert into the previous collection by p under `key`: requests about to
\* upsert the same, still missing key race with it
RacedBy(p, key, pending) ==
    [q \in Procs |->
        IF q # p /\ pc[q] \in pending /\ ~(\E r \in DbPrev(p) : r.key = key)
           /\ VermongoKey(TargetId(q), loc[q].curVersionId) = key
        THEN TRUE ELSE raced[q]]

\* Put, lines 526-546: store the current document in the previous collection
PutStorePrevious(p) ==
    /\ pc[p] = "put_archive"
    /\ LET key == VermongoKey(op[p].id, loc[p].curVersionId)
       IN \/ /\ DbWrite(p, DbCur(p), UpsertPrev(DbPrev(p), key, loc[p].currentDoc))
             /\ pc' = [pc EXCEPT ![p] = "put_write"]
             /\ raced' = RacedBy(p, key, ArchivePcs)
             /\ UNCHANGED res
          \/ /\ raced[p]          \* "duplicate key" from the racing upsert
             /\ Return(p, Fail("Conflict"))
             /\ UNCHANGED <<cur, prev, tx, visible, raced>>
    /\ Touch(p, {op[p].id})
    /\ UNCHANGED <<enableHistory, op, loc, opsLeft, superseded, accepted, usedIds, bvars>>

\* Put, lines 560-623: replace the current document
PutReplace(p) ==
    /\ pc[p] = "put_write"
    /\ LET i == op[p].id
           old == DbCur(p)[i]
           new == NewDoc(op[p].body, loc[p].newVersionId)
       IN IF loc[p].curVersionId = NilVer
          THEN \* ReplaceOne by _id with upsert
               \E modified \in (IF old = NoDoc THEN {0} ELSE IF old = new THEN {0, 1} ELSE {1}) :
                  /\ DbWrite(p, [DbCur(p) EXCEPT ![i] = new], DbPrev(p))
                  /\ Return(p, OkPut(modified = 0))
                  /\ Hist(p, Supersede(i, old),
                             Accept(i, "Put", loc[p].newVersionId))
          ELSE \* atomic check-then-update
               IF SelectorMatches(old, loc[p].curVersionId)
               THEN /\ DbWrite(p, [DbCur(p) EXCEPT ![i] = new], DbPrev(p))
                    /\ Return(p, OkPut(FALSE))
                    /\ Hist(p, Supersede(i, old),
                               Accept(i, "Put", loc[p].newVersionId))
               ELSE /\ Return(p, Fail("Conflict"))
                    /\ UNCHANGED <<cur, prev, tx, visible, superseded, accepted>>
    /\ Touch(p, {op[p].id})
    /\ UNCHANGED <<enableHistory, op, loc, opsLeft, raced, usedIds, bvars>>

\* ---------------------------------------------------------------- Delete
OkDelete(newVersionId) ==
    [err |-> "", createdNew |-> FALSE, newVersionId |-> newVersionId, status |-> 204, doc |-> NoDoc]
\* DeleteHandler answers 204 on ErrNotFound too, with the ETag when there is one
NotFoundDelete(newVersionId) ==
    [err |-> "NotFound", createdNew |-> FALSE, newVersionId |-> newVersionId, status |-> 204,
     doc |-> NoDoc]

\* DeleteHandler: DELETE /T/{id}, up to Delete's first round trip
DeleteHandler(p) ==
    /\ \E i \in NamedIds :
        /\ Begin(p, [kind |-> "Delete", id |-> i, cond |-> NoCond, body |-> NoBody, query |-> "", no |-> 0])
        /\ usedIds' = usedIds \cup {i}
    /\ pc' = [pc EXCEPT ![p] = IF enableHistory THEN "del_find" ELSE "del_one"]
    /\ res' = [res EXCEPT ![p] = NoRes]
    /\ UNCHANGED <<enableHistory, cur, prev, tx, visible, superseded, accepted, bvars>>

\* saveDeletionIntoHistory, lines 728-756: read the current document
SaveDeletionFind(p, i, found, missing) ==
    LET doc == DbCur(p)[i]
        v == getVersionIdFromResource(doc)
    IN IF doc = NoDoc
       THEN missing
       ELSE /\ pc' = [pc EXCEPT ![p] = found]
            /\ loc' = [loc EXCEPT ![p].currentDoc = doc,
                                  ![p].curVersionId = IF v.has THEN v.int ELSE 0,
                                  ![p].newVersionId = IF v.has THEN v.int + 1 ELSE 1]
            /\ UNCHANGED res

\* saveDeletionIntoHistory, lines 758-777: archive the current document
SaveDeletionArchive(p, i, next) ==
    LET key == VermongoKey(i, loc[p].curVersionId)
    IN \/ /\ DbWrite(p, DbCur(p), UpsertPrev(DbPrev(p), key, loc[p].currentDoc))
          /\ pc' = [pc EXCEPT ![p] = next]
          /\ raced' = RacedBy(p, key, ArchivePcs)
          /\ UNCHANGED res
       \/ /\ raced[p]
          /\ Return(p, Fail("Conflict"))
          /\ UNCHANGED <<cur, prev, tx, visible, raced>>

\* saveDeletionIntoHistory, lines 779-806: write the deletion record
SaveDeletionRecord(p, i) ==
    DbWrite(p, DbCur(p),
            UpsertPrev(DbPrev(p), DeletionKey(i, loc[p].newVersionId),
                       [vid |-> Itoa(loc[p].newVersionId), body |-> NoBody]))

DeleteFind(p) ==
    /\ pc[p] = "del_find"
    /\ SaveDeletionFind(p, op[p].id, "del_archive",
                        Return(p, NotFoundDelete("")) /\ UNCHANGED loc)
    /\ Touch(p, {op[p].id})
    /\ UNCHANGED <<enableHistory, cur, prev, tx, visible, op, opsLeft, raced, superseded, accepted, usedIds, bvars>>

DeleteArchive(p) ==
    /\ pc[p] = "del_archive"
    /\ SaveDeletionArchive(p, op[p].id, "del_tomb")
    /\ Touch(p, {op[p].id})
    /\ UNCHANGED <<enableHistory, op, loc, opsLeft, superseded, accepted, usedIds, bvars>>

DeleteRecord(p) ==
    /\ pc[p] = "del_tomb"
    /\ SaveDeletionRecord(p, op[p].id)
    /\ pc' = [pc EXCEPT ![p] = "del_one"]
    /\ Touch(p, {op[p].id})
    /\ UNCHANGED <<enableHistory, op, loc, res, opsLeft, raced, superseded, accepted, usedIds, bvars>>

\* Delete, lines 708-725: DeleteOne by _id
DeleteOne(p) ==
    /\ pc[p] = "del_one"
    /\ LET i == op[p].id
           old == DbCur(p)[i]
           newVersionId == IF enableHistory THEN Itoa(loc[p].newVersionId) ELSE ""
       IN IF old = NoDoc
          THEN /\ Return(p, NotFoundDelete(newVersionId))
               /\ UNCHANGED <<cur, prev, tx, visible, superseded, accepted>>
          ELSE /\ DbWrite(p, [DbCur(p) EXCEPT ![i] = NoDoc], DbPrev(p))
               /\ Return(p, OkDelete(newVersionId))
               /\ Hist(p, Supersede(i, old),
                          Accept(i, "Delete", IF enableHistory THEN loc[p].newVersionId ELSE 0))
    /\ Touch(p, {op[p].id})
    /\ UNCHANGED <<enableHistory, op, loc, opsLeft, raced, usedIds, bvars>>

\* ------------------------------------------------------ ConditionalDelete
\* ConditionalDeleteHandler: DELETE /T?query
ConditionalDeleteHandler(p) ==
    /\ \E q \in Bodies \cup CountedQueries :
        Begin(p, [kind |-> "ConditionalDelete", id |-> "", cond |-> NoCond, body |-> NoBody, query |-> q, no |-> 0])
    /\ pc' = [pc EXCEPT ![p] = "cd_find"]
    /\ res' = [res EXCEPT ![p] = NoRes]
    /\ UNCHANGED <<enableHistory, cur, prev, tx, visible, superseded, accepted, usedIds, bvars>>

\* ConditionalDelete, line 813: IDsToDelete
CdFindIDs(p) ==
    /\ pc[p] = "cd_find"
    /\ loc' = [loc EXCEPT ![p].ids = FindIDs(DbCur(p), op[p].query),
                          ![p].matching = Matching(DbCur(p), op[p].query)]
    /\ pc' = [pc EXCEPT ![p] = IF enableHistory THEN "cd_search" ELSE "cd_delmany"]
    /\ Touch(p, Ids)
    /\ UNCHANGED <<enableHistory, cur, prev, tx, visible, op, res, opsLeft, raced, superseded, accepted, usedIds, bvars>>

\* the loop over bundle.Entry, lines 850-858
CdNext(p, rest, tombs) ==
    IF rest = {}
    THEN /\ pc' = [pc EXCEPT ![p] = "cd_delmany"]
         /\ loc' = [loc EXCEPT ![p].entries = {}, ![p].elem = "", ![p].tombs = tombs]
    ELSE /\ pc' = [pc EXCEPT ![p] = "cd_hfind"]
         /\ loc' = [loc EXCEPT ![p].entries = rest \ {CHOOSE e \in rest : TRUE},
                               ![p].elem = CHOOSE e \in rest : TRUE,
                               ![p].tombs = tombs]

\* ConditionalDelete, line 841: the resources that are about to be deleted
CdSearch(p) ==
    /\ pc[p] = "cd_search"
    /\ CdNext(p, FindIDs(DbCur(p), op[p].query), {})
    /\ Touch(p, Ids)
    /\ UNCHANGED <<enableHistory, cur, prev, tx, visible, op, res, opsLeft, raced, superseded, accepted, usedIds, bvars>>

CdHistFind(p) ==
    /\ pc[p] = "cd_hfind"
    /\ SaveDeletionFind(p, loc[p].elem, "cd_harch", Return(p, Fail("Error")) /\ UNCHANGED loc)
    /\ Touch(p, {loc[p].elem})
    /\ UNCHANGED <<enableHistory, cur, prev, tx, visible, op, opsLeft, raced, superseded, accepted, usedIds, bvars>>

CdHistArchive(p) ==
    /\ pc[p] = "cd_harch"
    /\ SaveDeletionArchive(p, loc[p].elem, "cd_htomb")
    /\ Touch(p, {loc[p].elem})
    /\ UNCHANGED <<enableHistory, op, loc, opsLeft, superseded, accepted, usedIds, bvars>>

CdHistRecord(p) ==
    /\ pc[p] = "cd_htomb"
    /\ SaveDeletionRecord(p, loc[p].elem)
    /\ CdNext(p, loc[p].entries, loc[p].tombs \cup {<<loc[p].elem, loc[p].newVersionId>>})
    /\ Touch(p, {loc[p].elem})
    /\ UNCHANGED <<enableHistory, op, res, opsLeft, raced, superseded, accepted, usedIds, bvars>>

\* ConditionalDelete, lines 861-875 and 909-913: DeleteMany by _id $in IDsToDelete
CdDeleteMany(p) ==
    /\ pc[p] = "cd_delmany"
    /\ LET gone == {i \in loc[p].ids : DbCur(p)[i] # NoDoc}
           tomb(i) == IF \E t \in loc[p].tombs : t[1] = i
                      THEN (CHOOSE t \in loc[p].tombs : t[1] = i)[2] ELSE 0
       IN /\ DbWrite(p, [i \in Ids |-> IF i \in gone THEN NoDoc ELSE DbCur(p)[i]], DbPrev(p))
          /\ superseded' = superseded \cup {[id |-> i, doc |-> DbCur(p)[i]] : i \in gone}
          /\ accepted' = [i \in Ids |->
                            IF i \in gone
                            THEN Accepted(accepted[i], "Delete", tomb(i))
                            ELSE accepted[i]]
    /\ Return(p, OkDelete(""))
    /\ Touch(p, Ids)
    /\ UNCHANGED <<enableHistory, op, loc, opsLeft, raced, usedIds, bvars>>

\* ------------------------------------------------------ Post, PostWithID
\* CreateHandler: POST /T, and Post: a fresh id
CreateHandler(p) ==
    /\ FreshIds # {}
    /\ \E b \in Bodies :
        Begin(p, [kind |-> "Post", id |-> NewObjectID, cond |-> NoCond, body |-> b, query |-> "", no |-> 0])
    /\ usedIds' = usedIds \cup {NewObjectID}
    /\ pc' = [pc EXCEPT ![p] = "post_insert"]
    /\ res' = [res EXCEPT ![p] = NoRes]
    /\ UNCHANGED <<enableHistory, cur, prev, tx, visible, superseded, accepted, bvars>>

\* PostWithID: InsertOne of version 1
PostWithID(p) ==
    /\ pc[p] = "post_insert"
    /\ LET i == op[p].id
       IN IF DbCur(p)[i] # NoDoc
          THEN /\ Return(p, Fail("Error"))       \* duplicate _id
               /\ UNCHANGED <<cur, prev, tx, visible, superseded, accepted>>
          ELSE /\ DbWrite(p, [DbCur(p) EXCEPT ![i] = NewDoc(op[p].body, 1)], DbPrev(p))
               /\ Return(p, OkPut(TRUE))
               /\ Hist(p, superseded, Accept(i, "Post", 1))
    /\ Touch(p, {op[p].id})
    /\ UNCHANGED <<enableHistory, op, loc, opsLeft, raced, usedIds, bvars>>

\* --------------------------------------------------------- ConditionalPut
\* ConditionalUpdateHandler: PUT /T?query [If-Match]
ConditionalUpdateHandler(p) ==
    /\ \E q \in Bodies, c \in CondVals, b \in Bodies :
        Begin(p, [kind |-> "ConditionalPut", id |-> "", cond |-> c, body |-> b, query |-> q, no |-> 0])
    /\ pc' = [pc EXCEPT ![p] = "cput_find"]
    /\ res' = [res EXCEPT ![p] = NoRes]
    /\ UNCHANGED <<enableHistory, cur, prev, tx, visible, superseded, accepted, usedIds, bvars>>

\* ConditionalPut, lines 663-677: resolve the query to an id, then Put
ConditionalPut(p) ==
    /\ pc[p] = "cput_find"
    /\ LET IDs == FindIDs(DbCur(p), op[p].query)
       IN IF Cardinality(IDs) > 1
          THEN /\ Return(p, [Fail("MultipleMatches") EXCEPT !.status = 412])
               /\ UNCHANGED <<op, usedIds>>
          ELSE /\ IDs = {} => FreshIds # {}
               /\ LET i == IF IDs = {} THEN NewObjectID ELSE CHOOSE i \in IDs : TRUE
                  IN /\ op' = [op EXCEPT ![p].id = i]
                     /\ usedIds' = usedIds \cup {i}
               /\ PutEntry(p, op[p].cond)
    /\ Touch(p, Ids)
    /\ UNCHANGED <<enableHistory, cur, prev, tx, visible, loc, opsLeft, raced, superseded, accepted, bvars>>

\* ------------------------------------------------------------ the system
Next ==
    \E p \in Clients :
        \/ UpdateHandler(p)
        \/ PutFindCurrent(p)
        \/ PutStorePrevious(p)
        \/ PutReplace(p)
        \/ DeleteHandler(p)
        \/ DeleteFind(p)
        \/ DeleteArchive(p)
        \/ DeleteRecord(p)
        \/ DeleteOne(p)
        \/ ConditionalDeleteHandler(p)
        \/ CdFindIDs(p)
        \/ CdSearch(p)
        \/ CdHistFind(p)
        \/ CdHistArchive(p)
        \/ CdHistRecord(p)
        \/ CdDeleteMany(p)
        \/ CreateHandler(p)
        \/ PostWithID(p)
        \/ ConditionalUpdateHandler(p)
        \/ ConditionalPut(p)

Spec == Init /\ [][Next]_vars

\* ------------------------- Put and Delete, with and without history
InitPut ==
    /\ enableHistory \in BOOLEAN
    /\ batchConcurrency = 1
    /\ faults = 0
    /\ InitStore({"empty", "one"}, MaxOps)
    /\ InitBatch
    /\ InitAside

NextPut ==
    \E p \in Clients :
        \/ UpdateHandler(p)
        \/ PutFindCurrent(p)
        \/ PutStorePrevious(p)
        \/ PutReplace(p)
        \/ DeleteHandler(p)
        \/ DeleteFind(p)
        \/ DeleteArchive(p)
        \/ DeleteRecord(p)
        \/ DeleteOne(p)

SpecPut == InitPut /\ [][NextPut]_vars

\* ==================================================== the bundle processor
\* ---------------------------------------------------------------- Get
\* Get, lines 243-245: FindOne in the current collection
GetCurrent(p) ==
    /\ pc[p] = "get"
    /\ LET doc == DbCur(p)[op[p].id]
       IN IF doc = NoDoc /\ enableHistory
          THEN pc' = [pc EXCEPT ![p] = "get_prev"] /\ UNCHANGED res
          ELSE IF doc = NoDoc
               THEN Return(p, Fail("NotFound"))
               ELSE Return(p, [NoRes EXCEPT !.status = 200, !.doc = doc])
    /\ UNCHANGED <<enableHistory, cur, prev, tx, visible, op, loc, opsLeft, raced,
                   superseded, accepted, seen, usedIds, bvars>>

\* a lookup that finds no deletion record
IsDeleted_Never(pv, id) == FALSE

\* Get, lines 248-254: prevQuery {_id._id: id, _id._deleted: 1}, limit 1
IsDeleted(pv, id) == \E r \in pv : r.key.id = id /\ r.key.deleted

\* Get, lines 246-270: is there a deletion record of the id
GetDeleted(p) ==
    /\ pc[p] = "get_prev"
    /\ IF IsDeleted(DbPrev(p), op[p].id)
       THEN Return(p, Fail("Deleted"))
       ELSE Return(p, Fail("NotFound"))
    /\ UNCHANGED <<enableHistory, cur, prev, tx, visible, op, loc, opsLeft, raced,
                   superseded, accepted, seen, usedIds, bvars>>

\* ------------------------------------------------------------- the bundle
\* Post, line 200: attempts a transaction gets
TransactionAttempts == 3

\* entry.Response == nil, and a Response whose Status was never set
NoResponse == -1
EmptyStatus == 0

Entry(method, id, cond, query, body) ==
    [method |-> method, id |-> id, cond |-> cond, query |-> query, body |-> body,
     status |-> NoResponse, outcome |-> FALSE, resource |-> body # NoBody, createStatus |-> 0,
     fullUrl |-> ""]

\* the entries a client may put in a bundle:  DELETE T/i1,  DELETE T?x,
\* POST T,  POST T with If-None-Exist x,  PUT T/i1,  PUT T/i1 with If-Match 1,
\* PUT T?x,  GET T/i1
BundleEntries ==
    {Entry("DELETE", i, NoCond, "", NoBody) : i \in NamedIds}
    \cup {Entry("DELETE", "", NoCond, "x", NoBody),
          Entry("POST", "", NoCond, "", "x"),
          Entry("POST", "", NoCond, "x", "x"),
          Entry("PUT", "", NoCond, "x", "y")}
    \cup {Entry("PUT", i, c, "", "y") : i \in NamedIds, c \in {NoCond, "1"}}
    \cup {Entry("GET", i, NoCond, "", NoBody) : i \in NamedIds}

\* an entry that may need a new id
Creates(e) == e.method = "POST" \/ (e.method = "PUT" /\ e.id = "")

\* the bundles: up to MaxEntries entries, of which at most one may need a new id
Bundles ==
    {es \in UNION {[1..n -> BundleEntries] : n \in 1..MaxEntries} :
        Cardinality({i \in DOMAIN es : Creates(es[i])}) <= 1}

\* X-Provenance: absent, a Provenance resource, or one that sets "target"
ProvenanceHeaders == {"", "ok", "bad"}

\* byRequestMethod.Less: methodMap
methodMap(method) ==
    CASE method = "DELETE" -> 0
      [] method = "POST" -> 1
      [] method = "PUT" -> 2
      [] method = "GET" -> 3

Arrangements(n) == {f \in [1..n -> 1..n] : \A i, j \in 1..n : i # j => f[i] # f[j]}

\* a sort that leaves the entries as they came
sortBundleEntries_Unsorted(es) == {es}

\* sortBundleEntries: sort.Sort is not stable, so every arrangement of es
\* that is ordered by method may come out
sortBundleEntries(es) ==
    {s \in {[i \in DOMAIN es |-> es[f[i]]] : f \in Arrangements(Len(es))} :
        \A i, j \in DOMAIN s : i < j => ~(methodMap(s[j].method) < methodMap(s[i].method))}

isConditional(e) == e.method \in {"PUT", "DELETE"} /\ e.id = ""

\* newFailureResponse and sendReply
Failure(status, err) == [kind |-> "error", status |-> status, err |-> err, body |-> "outcome"]
SendReply(status, body) == [kind |-> "reply", status |-> status, err |-> "", body |-> body]

\* calls of the handler or of a goroutine into the session
Call(p, request, at) ==
    /\ op' = [op EXCEPT ![p] = request]
    /\ loc' = [loc EXCEPT ![p] = NoLoc]
    /\ raced' = [raced EXCEPT ![p] = FALSE]
    /\ seen' = [seen EXCEPT ![p] = {}]
    /\ pc' = [pc EXCEPT ![p] = at]
    /\ res' = [res EXCEPT ![p] = NoRes]

Request(kind, id, query, body) ==
    [kind |-> kind, id |-> id, cond |-> NoCond, body |-> body, query |-> query, no |-> 0]

\* Post, lines 170-201: a bundle arrives
Receive(types, bundles) ==
    /\ bpc = "idle"
    /\ \E type \in types, es \in bundles, pr \in ProvenanceHeaders :
        /\ bundle' = [type |-> type, entry |-> es, prov |-> pr]
        /\ bloc' = [NoBloc EXCEPT !.attemptsLeft =
                        IF type = "transaction" THEN TransactionAttempts ELSE 1]
    /\ bpc' = "inner"
    /\ UNCHANGED <<enableHistory, cur, prev, pc, op, loc, res, opsLeft, raced, superseded,
                   accepted, seen, usedIds, tx, visible, batchConcurrency, entries, gpc,
                   sem, reply, order, completed, faults, provenances, mx, pg, rs>>

Post == Receive({"transaction", "batch"}, Bundles)

\* Post, lines 204-208, and postInner, lines 246-283: one attempt starts
PostInner ==
    /\ bpc = "inner"
    /\ \E s \in sortBundleEntries(bundle.entry) : entries' = s
    /\ order' = <<>> /\ completed' = {}
    /\ gpc' = [i \in 1..MaxGoroutines |-> "none"]
    /\ IF bundle.type = "transaction"
       THEN /\ tx' = [active |-> TRUE, snapCur |-> cur, snapPrev |-> prev, cur |-> cur,
                      prev |-> prev, ids |-> {}, keys |-> {}, prov |-> FALSE,
                      target |-> <<>>, server |-> "open", abort |-> "",
                      session |-> "open"]
            /\ bpc' = "pass1"
            /\ bloc' = [bloc EXCEPT !.attemptsLeft = @ - 1, !.idx = 1, !.proceed = TRUE,
                                    !.refMap = <<>>]
            /\ reply' = NoReply
       ELSE /\ tx' = [NoTx EXCEPT !.session = "open"]
            /\ bloc' = [bloc EXCEPT !.attemptsLeft = @ - 1, !.idx = 1, !.proceed = TRUE,
                                    !.refMap = <<>>]
            /\ IF bundle.prov # ""
               THEN reply' = Failure(400, "invariant") /\ bpc' = "finish"
               ELSE reply' = NoReply /\ bpc' = "pass1"
    /\ UNCHANGED <<enableHistory, cur, prev, pc, op, loc, res, opsLeft, raced, superseded,
                   accepted, seen, usedIds, visible, batchConcurrency, bundle, sem,
                   faults, provenances, mx, pg, rs>>

\* the reference Type/id of a resource
TypeId(id) == CASE id = "i1" -> "Patient/i1" [] id = "i2" -> "Patient/i2"

\* refMap[key] = ref
MapTo(refMap, key, ref) ==
    [k \in DOMAIN refMap \cup {key} |-> IF k = key THEN ref ELSE refMap[k]]

\* postInner, lines 292-349: ids for the POST and conditional PUT at idx,
\* and their entries in refMap; new ids are taken from pool
ResolveIDsFrom(pool) ==
    /\ bpc = "pass1"
    /\ LET i == bloc.idx
           e == entries[i]
           IDs == FindIDs(DbCur(Handler), e.query)
           next == [bloc EXCEPT !.idx = @ + 1]
           mapped(id) == [next EXCEPT !.refMap = MapTo(@, e.fullUrl, TypeId(id))]
       IN IF i > Len(entries)
          THEN /\ bpc' = "refs" /\ bloc' = [bloc EXCEPT !.idx = 1]
               /\ UNCHANGED <<entries, usedIds, reply>>
          ELSE IF e.method = "POST" /\ (e.query = "" \/ IDs = {})
          THEN /\ FreshFrom(pool) # {}
               /\ entries' = [entries EXCEPT ![i].createStatus = 201, ![i].id = ObjectIDFrom(pool)]
               /\ usedIds' = usedIds \cup {ObjectIDFrom(pool)}
               /\ bpc' = "pass1" /\ bloc' = mapped(ObjectIDFrom(pool)) /\ UNCHANGED reply
          ELSE IF e.method = "POST"
          THEN /\ entries' = [entries EXCEPT
                                 ![i].createStatus = IF Cardinality(IDs) = 1 THEN 200 ELSE 412,
                                 ![i].id = IF Cardinality(IDs) = 1
                                           THEN CHOOSE x \in IDs : TRUE ELSE ""]
               /\ bpc' = "pass1"
               /\ bloc' = IF Cardinality(IDs) = 1 THEN mapped(CHOOSE x \in IDs : TRUE) ELSE next
               /\ UNCHANGED <<usedIds, reply>>
          ELSE IF e.method = "PUT" /\ isConditional(e)
          THEN \* resolveConditionalPut
               IF Cardinality(IDs) > 1
               THEN /\ reply' = Failure(500, "MultipleMatches") /\ bpc' = "finish"
                    /\ UNCHANGED <<entries, usedIds, bloc>>
               ELSE /\ IDs = {} => FreshFrom(pool) # {}
                    /\ LET id == IF IDs = {} THEN ObjectIDFrom(pool) ELSE CHOOSE x \in IDs : TRUE
                       IN /\ entries' = [entries EXCEPT ![i].id = id]
                          /\ usedIds' = usedIds \cup {id}
                          /\ bloc' = mapped(id)
                    /\ bpc' = "pass1" /\ UNCHANGED reply
          ELSE /\ bpc' = "pass1" /\ bloc' = next
               /\ UNCHANGED <<entries, usedIds, reply>>
    /\ UNCHANGED <<enableHistory, cur, prev, pc, op, loc, res, opsLeft, raced, superseded,
                   accepted, seen, tx, visible, batchConcurrency, bundle, gpc, sem,
                   order, completed, faults, provenances, mx, pg, rs>>

\* bson.NewObjectId() where clients name ids: none of those is given out
ResolveIDs == ResolveIDsFrom(Ids \ NamedIds)

\* a body without a reference has NoRef for its reference
NoRef == "noref"

\* the bodies that carry one reference, and the text of that reference:
\* the fullUrl of an entry, a conditional reference, or Type/id
RefBodies == {"z>urn:a", "z>Patient?x", "z>Patient/i1", "z>Patient/i2"}
Reference(body) ==
    CASE body = "z>urn:a" -> "urn:a"
      [] body = "z>Patient?x" -> "Patient?x"
      [] body = "z>Patient/i1" -> "Patient/i1"
      [] body = "z>Patient/i2" -> "Patient/i2"
      [] OTHER -> NoRef

\* the body with its reference replaced by ref
WithReference(body, ref) ==
    CASE ref = "Patient/i1" -> "z>Patient/i1"
      [] ref = "Patient/i2" -> "z>Patient/i2"
      [] ref = "Patient?x" -> "z>Patient?x"
      [] ref = "urn:a" -> "z>urn:a"

\* a conditional reference Type?query, and its query
ConditionalReferences == {"Patient?x"}
ReferenceQuery(ref) == CASE ref = "Patient?x" -> "x"

\* a conversion that leaves references as they are
ConvertJsonToGoFhirBSON_Untransformed(body, refsMap) == body

\* ConvertJsonToGoFhirBSON / addToBSONdoc, lines 94-101: a reference found
\* in refsMap is stored as what the map gives for it
ConvertJsonToGoFhirBSON(body, refsMap) ==
    IF Reference(body) \in DOMAIN refsMap
    THEN WithReference(body, refsMap[Reference(body)])
    ELSE body

\* bundle.GetAllReferences
GetAllReferences(es) ==
    {Reference(es[i].body) : i \in {i \in DOMAIN es : es[i].resource}} \ {NoRef}

\* postInner, lines 381-425: conditional references are looked up and join
\* refMap; the map is handed to the entries' resources
ProcessReferences ==
    /\ bpc = "refs"
    /\ LET references == {r \in GetAllReferences(entries) \cap ConditionalReferences :
                             r \notin DOMAIN bloc.refMap}
           ids(r) == FindIDs(DbCur(Handler), ReferenceQuery(r))
           found == {r \in references : Cardinality(ids(r)) = 1}
       IN IF references # {} /\ bundle.type # "transaction"
          THEN /\ reply' = Failure(400, "invariant") /\ bpc' = "finish"
               /\ UNCHANGED bloc
          ELSE IF \E r \in references : ids(r) = {}
          THEN /\ reply' = Failure(400, "not-found") /\ bpc' = "finish"
               /\ UNCHANGED bloc
          ELSE IF \E r \in references : Cardinality(ids(r)) > 1
          THEN /\ reply' = Failure(400, "multiple-matches") /\ bpc' = "finish"
               /\ UNCHANGED bloc
          ELSE /\ bloc' = [bloc EXCEPT !.refMap =
                              [k \in DOMAIN @ \cup found |->
                                  IF k \in found
                                  THEN TypeId(CHOOSE x \in ids(k) : TRUE) ELSE @[k]]]
               /\ bpc' = "ifmatch"
               /\ UNCHANGED reply
    /\ UNCHANGED <<enableHistory, cur, prev, pc, op, loc, res, opsLeft, raced, superseded,
                   accepted, seen, usedIds, tx, visible, batchConcurrency, bundle, entries,
                   gpc, sem, order, completed, faults, provenances, mx, pg, rs>>

\* postInner, lines 431-453: the PUT at idx carries If-Match: get the current resource
IfMatchGet ==
    /\ bpc = "ifmatch"
    /\ LET i == bloc.idx
       IN IF i > Len(entries)
          THEN /\ bpc' = "proceed"
               /\ UNCHANGED <<bloc, pc, op, loc, res, raced, seen>>
          ELSE IF entries[i].method = "PUT" /\ entries[i].cond # NoCond
          THEN /\ bpc' = "ifmatch_get"
               /\ Call(Handler, Request("Get", entries[i].id, "", NoBody), "get")
               /\ UNCHANGED bloc
          ELSE /\ bpc' = "ifmatch" /\ bloc' = [bloc EXCEPT !.idx = @ + 1]
               /\ UNCHANGED <<pc, op, loc, res, raced, seen>>
    /\ UNCHANGED <<enableHistory, cur, prev, opsLeft, superseded, accepted, usedIds, tx,
                   visible, batchConcurrency, bundle, entries, gpc, sem, reply, order,
                   completed, faults, provenances, mx, pg, rs>>

\* currentResource.VersionId()
VersionId(doc) == IF doc.vid = NoVid THEN "" ELSE doc.vid

Staged(e, status) == [e EXCEPT !.status = status, !.outcome = TRUE, !.resource = FALSE]

\* postInner, lines 454-472: stage a 404 or a 409 for the PUT at idx
IfMatchCheck ==
    /\ bpc = "ifmatch_get" /\ pc[Handler] = "done"
    /\ LET i == bloc.idx
           r == res[Handler]
       IN IF r.err \notin {"", "NotFound"}
          THEN /\ reply' = Failure(500, r.err) /\ bpc' = "finish"
               /\ UNCHANGED <<entries, bloc>>
          ELSE /\ entries' = IF r.err = "NotFound" THEN [entries EXCEPT ![i] = Staged(@, 404)]
                             ELSE IF entries[i].cond # VersionId(r.doc)
                             THEN [entries EXCEPT ![i] = Staged(@, 409)]
                             ELSE entries
               /\ bpc' = "ifmatch" /\ bloc' = [bloc EXCEPT !.idx = @ + 1]
               /\ UNCHANGED reply
    /\ UNCHANGED <<enableHistory, cur, prev, pc, op, loc, res, opsLeft, raced, superseded,
                   accepted, seen, usedIds, tx, visible, batchConcurrency, bundle, gpc,
                   sem, order, completed, faults, provenances, mx, pg, rs>>

HasOutcome(e) == e.status # NoResponse /\ e.outcome

\* postInner, lines 479-501 and 516-521: proceed, concurrency, and the
\* goroutines of a concurrent batch
Proceed ==
    /\ bpc = "proceed"
    /\ LET transaction == bundle.type = "transaction"
           proceed == ~(transaction /\ \E i \in DOMAIN entries : HasOutcome(entries[i]))
           concurrency == IF Len(entries) <= 1 \/ transaction THEN 1 ELSE batchConcurrency
       IN /\ bloc' = [bloc EXCEPT !.proceed = proceed, !.concurrency = concurrency, !.idx = 1]
          /\ bpc' = IF ~proceed THEN "outcome" ELSE IF concurrency = 1 THEN "serial" ELSE "wait"
          /\ gpc' = IF proceed /\ concurrency # 1
                    THEN [i \in 1..MaxGoroutines |-> IF i <= Len(entries) THEN "acquire" ELSE "none"]
                    ELSE gpc
    /\ UNCHANGED <<enableHistory, cur, prev, pc, op, loc, res, opsLeft, raced, superseded,
                   accepted, seen, usedIds, tx, visible, batchConcurrency, bundle, entries,
                   sem, reply, order, completed, faults, provenances, mx, pg, rs>>

\* doRequestInner, lines 628-715: the session call the entry at i makes, and
\* where that call starts ("done" when the entry makes none)
EntryRequest(e) ==
    CASE e.status # NoResponse -> Request("Handled", e.id, "", NoBody)
      [] e.status = NoResponse /\ e.method = "DELETE" /\ ~isConditional(e) ->
            Request("Delete", e.id, "", NoBody)
      [] e.status = NoResponse /\ e.method = "DELETE" /\ isConditional(e) ->
            Request("ConditionalDelete", "", e.query, NoBody)
      [] e.status = NoResponse /\ e.method = "POST" /\ e.createStatus = 201 ->
            Request("Post", e.id, "", ConvertJsonToGoFhirBSON(e.body, bloc.refMap))
      [] e.status = NoResponse /\ e.method = "POST" /\ e.createStatus = 200 ->
            Request("GetExisting", e.id, "", NoBody)
      [] e.status = NoResponse /\ e.method = "POST" /\ e.createStatus = 412 ->
            Request("Post412", "", "", NoBody)
      [] e.status = NoResponse /\ e.method = "PUT" ->
            Request("Put", e.id, "", ConvertJsonToGoFhirBSON(e.body, bloc.refMap))
      [] e.status = NoResponse /\ e.method = "GET" -> Request("Get", e.id, "", NoBody)

EntryStart(kind) ==
    CASE kind \in {"Handled", "Post412"} -> "done"
      [] kind = "Delete" -> IF enableHistory THEN "del_find" ELSE "del_one"
      [] kind = "ConditionalDelete" -> "cd_find"
      [] kind = "Post" -> "post_insert"
      [] kind = "Put" -> IF enableHistory THEN "put_find" ELSE "put_write"
      [] kind \in {"Get", "GetExisting"} -> "get"

\* doRequest starts the entry at i on the session of p
DoRequestBegin(p, i) ==
    /\ Call(p, EntryRequest(entries[i]), EntryStart(EntryRequest(entries[i]).kind))
    /\ order' = Append(order, i)

\* doRequestInner's error for a finished session call ("" for nil)
EntryError(kind, r) ==
    CASE kind \in {"Handled", "Post412"} -> ""
      [] kind = "Delete" -> IF r.err = "NotFound" THEN "" ELSE r.err
      [] kind = "Get" -> IF r.err \in {"NotFound", "Deleted"} THEN "" ELSE r.err
      [] kind \in {"ConditionalDelete", "Post", "GetExisting", "Put"} -> r.err

\* doRequestInner, lines 656-843: the entry's Response when there is no error
EntryDone(e, kind, r) ==
    CASE kind = "Handled" -> e
      [] kind \in {"Delete", "ConditionalDelete"} -> [e EXCEPT !.status = 204]
      [] kind = "Post" -> [e EXCEPT !.status = 201]
      [] kind = "GetExisting" -> [e EXCEPT !.status = 200, !.resource = TRUE]
      [] kind = "Post412" -> [e EXCEPT !.status = 412, !.outcome = TRUE, !.resource = FALSE]
      [] kind = "Put" -> [e EXCEPT !.status = IF r.createdNew THEN 201 ELSE 200]
      [] kind = "Get" ->
            IF r.err = "NotFound" THEN [e EXCEPT !.status = 404, !.resource = FALSE]
            ELSE IF r.err = "Deleted" THEN [e EXCEPT !.status = 410, !.resource = FALSE]
            ELSE [e EXCEPT !.status = EmptyStatus, !.resource = TRUE]

\* doRequest, lines 607-623: what becomes of the entry at i and of the bundle
\* when p's session call has returned
DoRequest(p, i) ==
    LET err == EntryError(op[p].kind, res[p])
    IN IF err = ""
       THEN [failed |-> FALSE, entry |-> EntryDone(entries[i], op[p].kind, res[p]), err |-> ""]
       ELSE IF bundle.type = "transaction"
       THEN [failed |-> TRUE, entry |-> entries[i], err |-> err]
       ELSE [failed |-> FALSE, entry |-> Staged(entries[i], ErrorToOpOutcome(err)), err |-> ""]

\* postInner, lines 506-507: the serial loop calls doRequest for the entry at idx
SerialBegin ==
    /\ bpc = "serial"
    /\ IF bloc.idx > Len(entries)
       THEN /\ bpc' = "outcome"
            /\ UNCHANGED <<pc, op, loc, res, raced, seen, order>>
       ELSE /\ bpc' = "serial_run"
            /\ DoRequestBegin(Handler, bloc.idx)
    /\ UNCHANGED <<enableHistory, cur, prev, opsLeft, superseded, accepted, usedIds, tx,
                   visible, batchConcurrency, bundle, entries, bloc, gpc, sem, reply,
                   completed, faults, provenances, mx, pg, rs>>

\* postInner, lines 507-510: doRequest returns to the serial loop
SerialEnd ==
    /\ bpc = "serial_run" /\ pc[Handler] = "done"
    /\ LET d == DoRequest(Handler, bloc.idx)
       IN /\ entries' = [entries EXCEPT ![bloc.idx] = d.entry]
          /\ completed' = completed \cup {bloc.idx}
          /\ IF d.failed
             THEN /\ reply' = Failure(ErrorToOpOutcome(d.err), d.err)
                  /\ bpc' = "finish"
                  /\ UNCHANGED bloc
             ELSE /\ bpc' = "serial"
                  /\ bloc' = [bloc EXCEPT !.idx = @ + 1]
                  /\ UNCHANGED reply
    /\ UNCHANGED <<enableHistory, cur, prev, pc, op, loc, res, opsLeft, raced, superseded,
                   accepted, seen, usedIds, tx, visible, batchConcurrency, bundle, gpc,
                   sem, order, faults, provenances, mx, pg, rs>>

\* a semaphore that lets every goroutine in
Acquirable_Uncapped(held, capacity) == TRUE

\* postInner, lines 511 and 519: a send on the channel of the given capacity
\* goes through while fewer than capacity values are held in it
Acquirable(held, capacity) == held < capacity

\* postInner, lines 522-535: the goroutine of entry i takes a place in the
\* semaphore, starts a session and calls doRequest
GoAcquire(i) ==
    /\ bpc = "wait" /\ gpc[i] = "acquire"
    /\ Acquirable(sem, bloc.concurrency)
    /\ sem' = sem + 1
    /\ gpc' = [gpc EXCEPT ![i] = "run"]
    /\ DoRequestBegin(Goroutine(i), i)
    /\ UNCHANGED <<enableHistory, cur, prev, opsLeft, superseded, accepted, usedIds, tx,
                   visible, batchConcurrency, bundle, entries, bpc, bloc, reply,
                   completed, faults, provenances, mx, pg, rs>>

\* postInner, lines 523-539: doRequest returns to the goroutine, which ends
\* its session, leaves the semaphore and is done
GoRelease(i) ==
    /\ gpc[i] = "run" /\ pc[Goroutine(i)] = "done"
    /\ entries' = [entries EXCEPT ![i] = DoRequest(Goroutine(i), i).entry]
    /\ completed' = completed \cup {i}
    /\ sem' = sem - 1
    /\ gpc' = [gpc EXCEPT ![i] = "exited"]
    /\ UNCHANGED <<enableHistory, cur, prev, pc, op, loc, res, opsLeft, raced, superseded,
                   accepted, seen, usedIds, tx, visible, batchConcurrency, bundle, bpc,
                   bloc, reply, order, faults, provenances, mx, pg, rs>>

\* a WaitGroup that lets Wait return at once
WaitGroupDone_Always == TRUE

\* postInner, lines 514 and 517: wg.Add(1) for every entry, wg.Done() deferred
\* by its goroutine; the counter is zero when every goroutine has returned
WaitGroupDone == \A i \in DOMAIN entries : gpc[i] = "exited"

\* postInner, line 542: wg.Wait()
Wait ==
    /\ bpc = "wait"
    /\ WaitGroupDone
    /\ bpc' = "outcome"
    /\ UNCHANGED <<enableHistory, cur, prev, pc, op, loc, res, opsLeft, raced, superseded,
                   accepted, seen, usedIds, tx, visible, batchConcurrency, bundle, entries,
                   bloc, gpc, sem, reply, order, completed, faults, provenances, mx, pg, rs>>

\* postInner, lines 546-560: a transaction with an entry that carries an
\* outcome is answered with the first such outcome
Outcome ==
    /\ bpc = "outcome"
    /\ LET bad == {i \in DOMAIN entries : HasOutcome(entries[i])}
           first == CHOOSE i \in bad : \A j \in bad : i <= j
       IN IF bundle.type = "transaction" /\ bad # {}
          THEN reply' = SendReply(entries[first].status, "outcome") /\ bpc' = "finish"
          ELSE /\ bpc' = IF bundle.type = "transaction" THEN "provenance" ELSE "reply"
               /\ UNCHANGED reply
    /\ UNCHANGED <<enableHistory, cur, prev, pc, op, loc, res, opsLeft, raced, superseded,
                   accepted, seen, usedIds, tx, visible, batchConcurrency, bundle, entries,
                   bloc, gpc, sem, order, completed, faults, provenances, mx, pg, rs>>

\* processProvenanceHeader, lines 939-969: the generated target, one
\* reference Type/id for every entry that carries a resource (the
\* /_history/versionId suffix is left out)
Target(es) ==
    LET withResource == SelectSeq(es, LAMBDA e : e.resource)
    IN [k \in DOMAIN withResource |-> TypeId(withResource[k].id)]

\* processProvenanceHeader: reject a header that sets target, else store
\* the Provenance resource, with the generated target, through the session
ProcessProvenanceHeader ==
    /\ bpc = "provenance"
    /\ \/ /\ bundle.prov = ""
          /\ bpc' = "commit"
          /\ UNCHANGED <<tx, reply, faults>>
       \/ /\ bundle.prov = "bad"
          /\ reply' = Failure(400, "value") /\ bpc' = "finish"
          /\ UNCHANGED <<tx, faults>>
       \/ /\ bundle.prov = "ok"
          /\ tx' = [tx EXCEPT !.prov = TRUE, !.target = Target(entries)]
          /\ bpc' = "commit"
          /\ UNCHANGED <<reply, faults>>
       \/ /\ bundle.prov = "ok" /\ faults > 0          \* PostWithID fails
          /\ faults' = faults - 1
          /\ reply' = Failure(500, "Error") /\ bpc' = "finish"
          /\ tx' = [tx EXCEPT !.server = "aborted"]
    /\ UNCHANGED <<enableHistory, cur, prev, pc, op, loc, res, opsLeft, raced, superseded,
                   accepted, seen, usedIds, visible, batchConcurrency, bundle, entries,
                   bloc, gpc, sem, order, completed, provenances, mx, pg, rs>>

\* session.CommitTransaction: the writes of the transaction reach the collections
CommitTransaction(t, c, pv) ==
    [cur |-> [i \in Ids |-> IF i \in t.ids THEN t.cur[i] ELSE c[i]],
     prev |-> {r \in pv : r.key \notin t.keys} \cup {r \in t.prev : r.key \in t.keys},
     wrote |-> t.ids # {} \/ t.keys # {} \/ t.prov]

\* a Finish that commits the open transaction
AbortTransaction_Commit(t, c, pv) == CommitTransaction(t, c, pv)

\* session.AbortTransaction: nothing of the transaction reaches the collections
AbortTransaction(t, c, pv) == [cur |-> c, prev |-> pv, wrote |-> FALSE]

\* CommmitIfTransaction, whose error postInner drops (line 572)
CommmitIfTransaction ==
    /\ bpc = "commit"
    /\ \/ LET done == CommitTransaction(tx, cur, prev)
          IN /\ cur' = done.cur /\ prev' = done.prev
             /\ visible' = (visible \/ done.wrote)
             /\ provenances' = provenances + (IF tx.prov THEN 1 ELSE 0)
             /\ tx' = [NoTx EXCEPT !.server = IF tx.active THEN "committed" ELSE "none",
                                   !.session = tx.session]
             /\ UNCHANGED faults
       \/ /\ faults > 0
          /\ faults' = faults - 1
          /\ tx' = [NoTx EXCEPT !.server = IF tx.active THEN "aborted" ELSE "none",
                                !.session = tx.session]
          /\ UNCHANGED <<cur, prev, visible, provenances, mx, pg, rs>>
    /\ bpc' = "reply"
    /\ UNCHANGED <<enableHistory, pc, op, loc, res, opsLeft, raced, superseded, accepted,
                   seen, usedIds, batchConcurrency, bundle, entries, bloc, gpc, sem,
                   reply, order, completed, mx, pg, rs>>

\* postInner, lines 578-586: the bundle is answered
Reply ==
    /\ bpc = "reply"
    /\ reply' = IF bloc.proceed
                THEN SendReply(200, IF bundle.type = "transaction"
                                    THEN "transaction-response" ELSE "batch-response")
                ELSE Failure(500, "invalid state")
    /\ bpc' = "finish"
    /\ UNCHANGED <<enableHistory, cur, prev, pc, op, loc, res, opsLeft, raced, superseded,
                   accepted, seen, usedIds, tx, visible, batchConcurrency, bundle, entries,
                   bloc, gpc, sem, order, completed, faults, provenances, mx, pg, rs>>

\* Finish, lines 132-146: the answers to AbortTransaction that do not panic
IgnoredAbortErrors_None == {}

IgnoredAbortErrors == {"OperationNotSupportedInTransaction", "NoSuchTransaction"}

\* what the database may answer to AbortTransaction: NoSuchTransaction when
\* an error has aborted the transaction already, OperationNotSupported-
\* InTransaction only when the transaction has not written yet
AbortAnswers(t) ==
    IF t.server = "aborted" THEN {"NoSuchTransaction"}
    ELSE IF t.ids # {} \/ t.keys # {} \/ t.prov THEN {"ok"}
    ELSE {"ok", "OperationNotSupportedInTransaction"}

\* the state of the transaction at the database after the answer
Aborted(t, answer) ==
    CASE answer = "ok" -> "aborted"
      [] answer = "NoSuchTransaction" -> "aborted"
      [] answer = "OperationNotSupportedInTransaction" -> "none"
      [] OTHER -> t.server

\* a Finish that never ends the session
EndSession_Skipped(session, answer) == session

\* Finish, lines 144-148: session.EndSession is the last statement, which
\* the panic on another answer of AbortTransaction does not reach
EndSession(session, answer) ==
    IF answer = "ok" \/ answer \in IgnoredAbortErrors THEN "ended" ELSE session

\* Finish (deferred by postInner): abort the transaction if one is open;
\* an answer that is neither success nor ignored makes Finish panic
Finish ==
    /\ bpc = "finish"
    /\ IF tx.active
       THEN \E answer \in AbortAnswers(tx) \cup (IF faults > 0 THEN {"Error"} ELSE {}) :
               LET done == AbortTransaction(tx, cur, prev)
               IN /\ cur' = done.cur /\ prev' = done.prev
                  /\ visible' = (visible \/ done.wrote)
                  /\ faults' = IF answer = "Error" THEN faults - 1 ELSE faults
                  /\ tx' = [NoTx EXCEPT !.server = Aborted(tx, answer), !.abort = answer,
                                        !.session = EndSession(tx.session, answer)]
                  /\ bpc' = IF answer = "ok" \/ answer \in IgnoredAbortErrors
                            THEN "post" ELSE "panic"
       ELSE /\ tx' = [NoTx EXCEPT !.server = tx.server,
                                  !.session = EndSession(tx.session, "ok")]
            /\ bpc' = "post"
            /\ UNCHANGED <<cur, prev, visible, faults>>
    /\ UNCHANGED <<enableHistory, pc, op, loc, res, opsLeft, raced, superseded, accepted,
                   seen, usedIds, batchConcurrency, bundle, entries, bloc, gpc, sem,
                   reply, order, completed, provenances, mx, pg, rs>>

\* a loop that tries again after any error
ShouldRetry_AnyError(r, attemptsLeft) == r.kind # "reply" /\ attemptsLeft > 0

\* Post, lines 204 and 210-238: the loop goes round again when postInner
\* gave no reply, its error names WriteConflict and attempts are left
ShouldRetry(r, attemptsLeft) ==
    r.kind # "reply" /\ r.err = "WriteConflict" /\ attemptsLeft > 0

\* Post, lines 210-241: send the reply, or try again after a WriteConflict
Retry ==
    /\ bpc = "post"
    /\ bpc' = IF ShouldRetry(reply, bloc.attemptsLeft) THEN "inner" ELSE "done"
    /\ UNCHANGED <<enableHistory, cur, prev, pc, op, loc, res, opsLeft, raced, superseded,
                   accepted, seen, usedIds, tx, visible, batchConcurrency, bundle, entries,
                   bloc, gpc, sem, reply, order, completed, faults, provenances, mx, pg, rs>>

\* ------------------------------------------------- failing round trips
DbSteps == {"put_find", "put_archive", "put_write", "del_find", "del_archive", "del_tomb",
            "del_one", "cd_find", "cd_search", "cd_hfind", "cd_harch", "cd_htomb",
            "cd_delmany", "post_insert", "get", "get_prev"}

\* convertMongoErr: a round trip of a bundle's session call fails; an error
\* inside a transaction aborts the transaction (part_009:137-141)
DbFault(p) ==
    /\ pc[p] \in DbSteps
    /\ faults > 0
    /\ faults' = faults - 1
    /\ Return(p, Fail("Error"))
    /\ tx' = IF InTx(p) THEN [tx EXCEPT !.server = "aborted"] ELSE tx
    /\ UNCHANGED <<enableHistory, cur, prev, visible, op, loc, opsLeft, raced,
                   superseded, accepted, seen, usedIds, batchConcurrency, bundle, entries,
                   bpc, bloc, gpc, sem, reply, order, completed, provenances, mx, pg, rs>>

\* the documents and previous-version keys the next round trip of p writes
WriteIds(p) ==
    IF pc[p] \in {"put_write", "del_one", "post_insert"} THEN {op[p].id}
    ELSE IF pc[p] = "cd_delmany" THEN loc[p].ids ELSE {}
WriteKeys(p) ==
    IF pc[p] \in ArchivePcs THEN {VermongoKey(TargetId(p), loc[p].curVersionId)}
    ELSE IF pc[p] \in {"del_tomb", "cd_htomb"} THEN {DeletionKey(TargetId(p), loc[p].newVersionId)}
    ELSE {}

\* a write of the transaction meets a document that was written after the
\* transaction's snapshot: the server answers WriteConflict
WriteConflict(p) ==
    /\ InTx(p)
    /\ \/ \E i \in WriteIds(p) : cur[i] # tx.snapCur[i]
       \/ \E k \in WriteKeys(p) : RecordsAt(prev, k) # RecordsAt(tx.snapPrev, k)
    /\ Return(p, Fail("WriteConflict"))
    /\ tx' = [tx EXCEPT !.server = "aborted"]
    /\ UNCHANGED <<enableHistory, cur, prev, visible, op, loc, opsLeft, raced,
                   superseded, accepted, seen, usedIds, bvars>>

\* ------------------------------------------------------------ the system
BundleClients == {"c1"}
BundleInitKinds == {"one", "two", "deleted"}

\* the request a client makes while the bundle is processed: PUT /T/{id}
\* with body "y" and no If-Match
ClientUpdate(p) == UpdateRequest(p, {NoCond}, {"y"})

InitBundle ==
    /\ enableHistory = TRUE
    /\ batchConcurrency \in 1..MaxConcurrency
    /\ faults = MaxFaults
    /\ InitStore(BundleInitKinds, BundleClientOps)
    /\ InitBatch
    /\ InitAside

NextBundle ==
    \/ Post
    \/ PostInner
    \/ ResolveIDs
    \/ ProcessReferences
    \/ IfMatchGet
    \/ IfMatchCheck
    \/ Proceed
    \/ SerialBegin
    \/ SerialEnd
    \/ \E i \in 1..MaxEntries : GoAcquire(i)
    \/ \E i \in 1..MaxEntries : GoRelease(i)
    \/ Wait
    \/ Outcome
    \/ ProcessProvenanceHeader
    \/ CommmitIfTransaction
    \/ Reply
    \/ Finish
    \/ Retry
    \/ \E p \in BundleClients : ClientUpdate(p)
    \/ \E p \in BundleProcs : DbFault(p)
    \/ \E p \in BundleProcs : WriteConflict(p)
    \/ \E p \in BundleProcs \cup BundleClients :
        \/ PutFindCurrent(p)
        \/ PutStorePrevious(p)
        \/ PutReplace(p)
        \/ DeleteFind(p)
        \/ DeleteArchive(p)
        \/ DeleteRecord(p)
        \/ DeleteOne(p)
        \/ CdFindIDs(p)
        \/ CdSearch(p)
        \/ CdHistFind(p)
        \/ CdHistArchive(p)
        \/ CdHistRecord(p)
        \/ CdDeleteMany(p)
        \/ PostWithID(p)
        \/ GetCurrent(p)
        \/ GetDeleted(p)

SpecBundle == InitBundle /\ [][NextBundle]_vars

\* ---------------------------------------- a bundle that keeps being overtaken
\* a bundle of one PUT /T/{id}, with or without If-Match, while a client
\* updates the same resource RetryClientOps times
RetryBundles == {es \in Bundles : Len(es) = 1 /\ es[1].method = "PUT" /\ es[1].id # ""}

PostUpdate == Receive({"transaction", "batch"}, RetryBundles)

InitRetry ==
    /\ enableHistory = TRUE
    /\ batchConcurrency = 1
    /\ faults = MaxFaults
    /\ InitStore({"one"}, RetryClientOps)
    /\ InitBatch
    /\ InitAside

NextRetry ==
    \/ PostUpdate
    \/ PostInner
    \/ ResolveIDs
    \/ ProcessReferences
    \/ IfMatchGet
    \/ IfMatchCheck
    \/ Proceed
    \/ SerialBegin
    \/ SerialEnd
    \/ Outcome
    \/ ProcessProvenanceHeader
    \/ CommmitIfTransaction
    \/ Reply
    \/ Finish
    \/ Retry
    \/ DbFault(Handler)
    \/ WriteConflict(Handler)
    \/ \E p \in BundleClients : ClientUpdate(p)
    \/ \E p \in {Handler} \cup BundleClients :
        \/ PutFindCurrent(p)
        \/ PutStorePrevious(p)
        \/ PutReplace(p)
        \/ GetCurrent(p)

SpecRetry == InitRetry /\ [][NextRetry]_vars

\* ------------------------------------- a bundle whose entries refer to entries
\* the entry e of a bundle, under its fullUrl
At(fullUrl, e) == [e EXCEPT !.fullUrl = fullUrl]

\* entries that are given an id (POST T, POST T with If-None-Exist x,
\* PUT T?x) and entries whose resource refers to urn:a, to T?x or to T/i2
RefEntries ==
    {At("urn:a", Entry("POST", "", NoCond, "", "x")),
     At("urn:a", Entry("POST", "", NoCond, "x", "x")),
     At("urn:a", Entry("PUT", "", NoCond, "x", "y")),
     At("urn:a", Entry("POST", "", NoCond, "", "z>urn:a")),
     At("urn:b", Entry("POST", "", NoCond, "", "z>urn:a")),
     At("urn:b", Entry("PUT", "i1", NoCond, "", "z>urn:a")),
     At("urn:b", Entry("PUT", "i1", NoCond, "", "z>Patient?x")),
     At("urn:b", Entry("PUT", "i1", NoCond, "", "z>Patient/i2"))}

\* bundles of up to MaxEntries such entries, no two under one fullUrl
RefBundles ==
    {es \in UNION {[1..n -> RefEntries] : n \in 1..MaxEntries} :
        \A i, j \in DOMAIN es : i # j => es[i].fullUrl # es[j].fullUrl}

PostRefs == Receive({"transaction", "batch"}, RefBundles)

InitRefs ==
    /\ enableHistory = TRUE
    /\ batchConcurrency = 1
    /\ faults = 0
    /\ InitStore({"empty", "one"}, 0)
    /\ InitBatch
    /\ InitAside

NextRefs ==
    \/ PostRefs
    \/ PostInner
    \/ ResolveIDs
    \/ ProcessReferences
    \/ IfMatchGet
    \/ Proceed
    \/ SerialBegin
    \/ SerialEnd
    \/ Outcome
    \/ ProcessProvenanceHeader
    \/ CommmitIfTransaction
    \/ Reply
    \/ Finish
    \/ Retry
    \/ PutFindCurrent(Handler)
    \/ PutStorePrevious(Handler)
    \/ PutReplace(Handler)
    \/ PostWithID(Handler)
    \/ GetCurrent(Handler)

SpecRefs == InitRefs /\ [][NextRefs]_vars

\* --------------------------- a batch with more entries than its concurrency
\* PUT T/i1, PUT T/i2 and GET T/i1
ConcurrentEntries ==
    {Entry("PUT", i, NoCond, "", "y") : i \in Ids}
    \cup {Entry("GET", i, NoCond, "", NoBody) : i \in NamedIds}

\* the bundles of BatchEntries such entries
ConcurrentBundles == [1..BatchEntries -> ConcurrentEntries]

PostBatch == Receive({"batch"}, ConcurrentBundles)

InitBatchRun ==
    /\ enableHistory = TRUE
    /\ batchConcurrency \in 1..MaxConcurrency
    /\ faults = 0
    /\ InitStore({"one"}, 0)
    /\ InitBatch
    /\ InitAside

NextBatchRun ==
    \/ PostBatch
    \/ PostInner
    \/ ResolveIDs
    \/ ProcessReferences
    \/ IfMatchGet
    \/ Proceed
    \/ SerialBegin
    \/ SerialEnd
    \/ \E i \in 1..BatchEntries : GoAcquire(i)
    \/ \E i \in 1..BatchEntries : GoRelease(i)
    \/ Wait
    \/ Outcome
    \/ Reply
    \/ Finish
    \/ Retry
    \/ \E p \in BundleProcs :
          \/ PutFindCurrent(p)
          \/ PutStorePrevious(p)
          \/ PutReplace(p)
          \/ GetCurrent(p)

SpecBatch == InitBatchRun /\ [][NextBatchRun]_vars

\* ============================================= the mutex middleware
\* X-Mutex-Name and Db headers of a request ("" when absent)
MutexNames == {"", "m", "n"}
DbNames == {"", "d"}

\* a coordinator that starts a new queue for a mutex it already holds
AddLock_Replace(mutexes, name, lockId) ==
    [n \in DOMAIN mutexes \cup {name} |-> IF n = name THEN {lockId} ELSE mutexes[n]]

\* the map of the coordinator with lockId under name
AddLock(mutexes, name, lockId) ==
    [n \in DOMAIN mutexes \cup {name} |->
        IF n \in DOMAIN mutexes /\ n # name THEN mutexes[n]
        ELSE IF n \in DOMAIN mutexes THEN mutexes[n] \cup {lockId} ELSE {lockId}]

\* the middleware takes the lock when the request names a mutex and has no
\* Db header (client_specified_mutexes.go, lines 81-84)
Locks(h) == h.db = "" /\ h.mutexName # ""

\* lines 76-103 up to c.Next(): a request without X-Mutex-Name, or with a Db
\* header, goes on to its handler; another sends a lockRequest, which the
\* coordinator (lines 56-69) queues when the mutex is present and otherwise
\* answers on the gate channel of the request
Middleware(r) ==
    /\ mx.at[r] = "arrived"
    /\ LET h == mx.header[r]
       IN IF ~Locks(h)
          THEN mx' = [mx EXCEPT !.at[r] = "handler"]
          ELSE /\ mx.coordinator.at = "select"
               /\ IF h.mutexName \in DOMAIN mx.mutexes
                  THEN mx' = [mx EXCEPT !.at[r] = "locking",
                                        !.mutexes = AddLock(@, h.mutexName, r)]
                  ELSE mx' = [mx EXCEPT !.at[r] = "locking",
                                        !.coordinator = [at |-> "lock_send", to |-> r]]
    /\ UNCHANGED <<enableHistory, cur, prev, pc, op, loc, res, opsLeft, raced, superseded,
                   accepted, seen, usedIds, tx, visible, bvarsPost, pg, rs>>

\* line 92: the request receives its lockId from the gate channel and calls
\* c.Next(); a coordinator that answered a lockRequest then stores the new
\* queue (line 67)
Gate(r) ==
    /\ mx.at[r] = "locking" /\ mx.coordinator.to = r
    /\ mx' = [mx EXCEPT !.at[r] = "handler",
                        !.coordinator = [at |-> "select", to |-> ""],
                        !.mutexes = IF mx.coordinator.at = "lock_send"
                                    THEN AddLock(@, mx.header[r].mutexName, r) ELSE @]
    /\ UNCHANGED <<enableHistory, cur, prev, pc, op, loc, res, opsLeft, raced, superseded,
                   accepted, seen, usedIds, tx, visible, bvarsPost, pg, rs>>

\* c.Next() returns
HandlerReturns(r) ==
    /\ mx.at[r] = "handler"
    /\ mx' = [mx EXCEPT !.at[r] = IF Locks(mx.header[r]) THEN "unlocking" ELSE "done"]
    /\ UNCHANGED <<enableHistory, cur, prev, pc, op, loc, res, opsLeft, raced, superseded,
                   accepted, seen, usedIds, tx, visible, bvarsPost, pg, rs>>

\* lines 95-98 and 32-54: the deferred unlockRequest; the coordinator takes
\* the lockId out and sends to an arbitrary waiter, or frees the mutex
Unlock(r) ==
    /\ mx.at[r] = "unlocking" /\ mx.coordinator.at = "select"
    /\ LET name == mx.header[r].mutexName
       IN IF name \notin DOMAIN mx.mutexes \/ r \notin mx.mutexes[name]
          THEN mx' = [mx EXCEPT !.at[r] = "done", !.coordinator = [at |-> "panic", to |-> ""]]
          ELSE LET locks == mx.mutexes[name] \ {r}
               IN IF locks # {}
                  THEN \E w \in locks :
                         mx' = [mx EXCEPT !.at[r] = "done",
                                          !.mutexes[name] = locks,
                                          !.coordinator = [at |-> "unlock_send", to |-> w]]
                  ELSE mx' = [mx EXCEPT !.at[r] = "done",
                                        !.mutexes = [n \in DOMAIN @ \ {name} |-> @[n]]]
    /\ UNCHANGED <<enableHistory, cur, prev, pc, op, loc, res, opsLeft, raced, superseded,
                   accepted, seen, usedIds, tx, visible, bvarsPost, pg, rs>>

\* the requests have arrived with their headers
InitMutex ==
    /\ enableHistory = TRUE
    /\ batchConcurrency = 1
    /\ faults = 0
    /\ InitStore({"empty"}, 0)
    /\ InitBatch
    /\ pg = NoPg
    /\ rs = NoRs
    /\ \E hs \in [MutexRequests -> [mutexName : MutexNames, db : DbNames]] :
          mx = [NoMx EXCEPT !.header = hs, !.at = [r \in MutexRequests |-> "arrived"]]

NextMutex ==
    \/ \E r \in MutexRequests : Middleware(r)
    \/ \E r \in MutexRequests : Gate(r)
    \/ \E r \in MutexRequests : HandlerReturns(r)
    \/ \E r \in MutexRequests : Unlock(r)

SpecMutex == InitMutex /\ [][NextMutex]_vars

\* ===================================================== paging links
\* a query parameter that is given with a value, and one that is absent
Param(v) == [given |-> TRUE, value |-> v]
NoParam == [given |-> FALSE, value |-> 0]

\* the _offset and _count a request may carry
OffsetParams == {NoParam} \cup {Param(v) : v \in -1..(MaxTotal + 1)}
CountParams == {NoParam} \cup {Param(v) : v \in -1..MaxCount}

\* generatePagingLinks, lines 1113-1126: offset and count of the request
offsetOf(pOffset) == IF pOffset.given /\ pOffset.value >= 0 THEN pOffset.value ELSE 0
countOf(pCount) == IF pCount.given /\ pCount.value >= 1 THEN pCount.value ELSE DefaultCount

newLink(offset, count) == [present |-> TRUE, offset |-> offset, count |-> count]

\* the links of a page: self, first, previous when the page is not the
\* first, next and last from the total when totals are counted, else next
\* when the page is full
generatePagingLinks(pOffset, pCount, total, numResults, countTotalResults) ==
    LET offset == offsetOf(pOffset)
        count == countOf(pCount)
        prevOffset == IF offset - count < 0 THEN 0 ELSE offset - count
        remainder == IF total < offset THEN 0 ELSE (total - offset) % count
        newOffset == IF remainder = 0 /\ total > count THEN total - count
                     ELSE total - remainder
    IN [self |-> newLink(offset, count),
        first |-> newLink(0, count),
        previous |-> IF offset > 0 THEN newLink(prevOffset, offset - prevOffset) ELSE NoLink,
        next |-> IF countTotalResults
                 THEN IF total > offset + count THEN newLink(offset + count, count) ELSE NoLink
                 ELSE IF numResults = count THEN newLink(offset + count, count) ELSE NoLink,
        last |-> IF countTotalResults THEN newLink(newOffset, count) ELSE NoLink]

\* the resources on the page: count of the matching ones after offset
NumResults(matching, offset, count) ==
    IF matching - offset <= 0 THEN 0
    ELSE IF matching - offset < count THEN matching - offset ELSE count

\* Search, lines 1023-1073: the page and its links; the total is only
\* counted when countTotalResults is set
PagingSearch ==
    /\ pg.at = "request"
    /\ LET numResults == NumResults(pg.total, offsetOf(pg.offset), countOf(pg.count))
           total == IF pg.countTotalResults THEN pg.total ELSE 0
       IN pg' = [pg EXCEPT !.at = "answered", !.numResults = numResults,
                           !.links = generatePagingLinks(pg.offset, pg.count, total,
                                                         numResults, pg.countTotalResults)]
    /\ UNCHANGED <<enableHistory, cur, prev, pc, op, loc, res, opsLeft, raced, superseded,
                   accepted, seen, usedIds, tx, visible, bvarsPost, mx, rs>>

\* the client requests the page a link points to
Follow(link, steps) ==
    /\ link.present
    /\ pg' = [pg EXCEPT !.at = "request", !.offset = Param(link.offset),
                        !.count = Param(link.count), !.steps = steps]
    /\ UNCHANGED <<enableHistory, cur, prev, pc, op, loc, res, opsLeft, raced, superseded,
                   accepted, seen, usedIds, tx, visible, bvarsPost, mx, rs>>

\* the client starts at the first link, and goes on along the next links
FollowFirst == pg.at = "answered" /\ pg.steps = 0 /\ Follow(pg.links.first, 1)
FollowNext == pg.at = "answered" /\ pg.steps >= 1 /\ Follow(pg.links.next, pg.steps + 1)

InitPaging ==
    /\ enableHistory = TRUE
    /\ batchConcurrency = 1
    /\ faults = 0
    /\ InitStore({"empty"}, 0)
    /\ InitBatch
    /\ mx = NoMx
    /\ rs = NoRs
    /\ \E total \in 0..MaxTotal, counted \in BOOLEAN, o \in OffsetParams, c \in CountParams :
          pg = [NoPg EXCEPT !.total = total, !.countTotalResults = counted,
                            !.offset = o, !.count = c, !.at = "request"]

NextPaging ==
    \/ PagingSearch
    \/ FollowFirst
    \/ FollowNext

SpecPaging == InitPaging /\ [][NextPaging]_vars

\* ======================================================= Get and History
\* ShowHandler: GET /T/{id}, up to Get's first round trip
ShowHandler(p) ==
    /\ \E i \in NamedIds :
        Begin(p, [kind |-> "Get", id |-> i, cond |-> NoCond, body |-> NoBody, query |-> "", no |-> 0])
    /\ pc' = [pc EXCEPT ![p] = "get"]
    /\ res' = [res EXCEPT ![p] = NoRes]
    /\ UNCHANGED <<enableHistory, cur, prev, tx, visible, superseded, accepted, usedIds, bvars>>

\* HistoryHandler: GET /T/{id}/_history, up to History's first round trip
HistoryHandler(p) ==
    /\ \E i \in NamedIds :
        Begin(p, [kind |-> "History", id |-> i, cond |-> NoCond, body |-> NoBody, query |-> "", no |-> 0])
    /\ pc' = [pc EXCEPT ![p] = "hist_cur"]
    /\ res' = [res EXCEPT ![p] = NoRes]
    /\ UNCHANGED <<enableHistory, cur, prev, tx, visible, superseded, accepted, usedIds, bvars>>

\* History, lines 940-954: the current version comes first, as a PUT
HistoryCurrent(p) ==
    /\ pc[p] = "hist_cur"
    /\ LET curDoc == DbCur(p)[op[p].id]
       IN loc' = [loc EXCEPT ![p].entryList =
                      IF curDoc = NoDoc THEN <<>>
                      ELSE <<[method |-> "PUT", resource |-> curDoc]>>]
    /\ pc' = [pc EXCEPT ![p] = "hist_prev"]
    /\ UNCHANGED <<enableHistory, cur, prev, tx, visible, op, res, opsLeft, raced,
                   superseded, accepted, seen, usedIds, bvars>>

\* Find with SetSort({_id._version: -1}): the records in an order that never
\* puts a smaller _version before a greater one
SortByVersion(records) ==
    {s \in [1..Cardinality(records) -> records] :
        /\ \A a, b \in DOMAIN s : a # b => s[a] # s[b]
        /\ \A a, b \in DOMAIN s : a < b => s[a].key.version >= s[b].key.version}

\* History, lines 976-988, and unmarshalPreviousVersion: the entry of a
\* previous-version record
HistoryEntry(r) ==
    IF r.key.deleted
    THEN [method |-> "DELETE", resource |-> NoDoc]
    ELSE [method |-> "PUT", resource |-> r.doc]

\* History, lines 956-1013: the previous versions follow; the last entry
\* becomes a POST
HistoryPrevious(p) ==
    /\ pc[p] = "hist_prev"
    /\ \E s \in SortByVersion({r \in DbPrev(p) : r.key.id = op[p].id}) :
        LET entryList == loc[p].entryList \o [k \in DOMAIN s |-> HistoryEntry(s[k])]
            totalDocs == Len(entryList)
        IN IF totalDocs = 0
           THEN /\ Return(p, Fail("NotFound"))
                /\ UNCHANGED loc
           ELSE /\ Return(p, [NoRes EXCEPT !.status = 200])
                /\ loc' = [loc EXCEPT
                             ![p].entryList = [entryList EXCEPT ![totalDocs].method = "POST"],
                             ![p].totalDocs = totalDocs]
    /\ UNCHANGED <<enableHistory, cur, prev, tx, visible, op, opsLeft, raced,
                   superseded, accepted, seen, usedIds, bvars>>

\* the collections before the clients read: as InitKinds, or one resource
\* created with body "x"; deletion records exist only where history is kept
ReadInitKinds == InitKinds \cup {"one"}

InitRead ==
    /\ enableHistory \in BOOLEAN
    /\ batchConcurrency = 1
    /\ faults = 0
    /\ InitStore(IF enableHistory THEN ReadInitKinds ELSE ReadInitKinds \ {"deleted"}, ReadOps)
    /\ InitBatch
    /\ InitAside

NextRead ==
    \E p \in Clients :
        \/ UpdateHandler(p)
        \/ PutFindCurrent(p)
        \/ PutStorePrevious(p)
        \/ PutReplace(p)
        \/ DeleteHandler(p)
        \/ DeleteFind(p)
        \/ DeleteArchive(p)
        \/ DeleteRecord(p)
        \/ DeleteOne(p)
        \/ ShowHandler(p)
        \/ GetCurrent(p)
        \/ GetDeleted(p)
        \/ HistoryHandler(p)
        \/ HistoryCurrent(p)
        \/ HistoryPrevious(p)

SpecRead == InitRead /\ [][NextRead]_vars


\* ------------------------------------------------- the versioned store claims
PutKinds == {"Put", "ConditionalPut"}

\* p and q are two Puts of the same id that ran concurrently, that both read
\* the same existing current version and passed the If-Match comparison, and
\* no other request touched the id while either of them ran
ConcurrentPuts(p, q) ==
    /\ p # q /\ pc[p] = "done" /\ pc[q] = "done"
    /\ op[p].kind \in PutKinds /\ op[q].kind \in PutKinds
    /\ op[p].id = op[q].id
    /\ loc[p].curVersionId # NilVer /\ loc[p].curVersionId = loc[q].curVersionId
    /\ seen[p] = {OpId(q)} /\ seen[q] = {OpId(p)}

C3_NoAcceptedVersionLost ==
    \A s \in superseded :
        \E r \in prev :
            r.key = VermongoKey(s.id, IF s.doc.vid = NoVid THEN 0 ELSE Atoi(s.doc.vid))

\* C4: the first stored version of an id has versionId 1, and every later
\* accepted Put or Delete is given a versionId strictly greater than the one
\* the preceding accepted write to that id was given
C4_VersionIdsIncrease ==
    [][\A i \in Ids :
          accepted'[i] # accepted[i] =>
              /\ accepted'[i].first = 1
              /\ accepted'[i].last > accepted[i].last]_vars

\* the version a document counts as: one without meta.versionId is version 0
VersionOf(doc) == IF doc.vid = NoVid THEN "0" ELSE doc.vid

\* p's Put takes the step that reads the current document and compares If-Match
ReadsCurrent(p) == pc[p] = "put_find" /\ pc'[p] # "put_find" /\ op[p].cond # NoCond

\* C6: a Put with a conditionalVersionId passes the version check if and only
\* if a current document exists whose version (0 without meta.versionId)
\* equals it; otherwise it returns Conflict
C6_IfMatchDecides ==
    [][\A p \in Procs :
          ReadsCurrent(p) =>
              IF cur[op[p].id] # NoDoc /\ VersionOf(cur[op[p].id]) = op[p].cond
              THEN pc'[p] = "put_archive"
              ELSE pc'[p] = "done" /\ res'[p].err = "Conflict"]_vars

C8_PrevNeverMutated ==
    [][\A r \in prev : r \in prev']_vars

\* C9: the version of every tombstone is greater than the version of every
\* archived (non-tombstone) record of the same id
C9_TombstoneAboveArchived ==
    \A t, r \in prev :
        (t.key.deleted /\ ~r.key.deleted /\ r.key.id = t.key.id) =>
            t.key.version > r.key.version

\* the archived (non-tombstone) versions of id i
Archived(i) == {r \in prev : r.key.id = i /\ ~r.key.deleted}

\* no request is running, id i was never deleted and never held a document
\* without meta.versionId
OnlyUpdated(i) ==
    /\ \A p \in Procs : pc[p] \in {"idle", "done"}
    /\ cur[i] # NoDoc /\ cur[i].vid # NoVid
    /\ ~(\E r \in prev : r.key.id = i /\ (r.key.deleted \/ r.key.version = 0))

\* C10: after N successful updates to an id the current document has
\* versionId N and there are exactly N-1 archived versions of the id
C10_VersionCountsUpdates ==
    \A i \in Ids :
        OnlyUpdated(i) =>
            /\ cur[i].vid = Itoa(accepted[i].puts)
            /\ Cardinality(Archived(i)) = accepted[i].puts - 1

\* ---------------------------------------------------- the bundle claims
\* the bundle was answered with a successful transaction-response
TransactionResponse ==
    reply.kind = "reply" /\ reply.status = 200 /\ reply.body = "transaction-response"

\* C2: when a transaction bundle is answered with anything but a successful
\* transaction-response, no write of its entries is visible in the store
C2_FailedTransactionInvisible ==
    (bpc = "done" /\ bundle.type = "transaction" /\ ~TransactionResponse) => ~visible

\* a transaction whose PUT or POST had written when it failed
C2_Witness ==
    /\ bpc = "done" /\ bundle.type = "transaction" /\ ~TransactionResponse
    /\ \E i \in completed :
          \/ entries[i].method = "PUT" /\ entries[i].status \in {200, 201}
          \/ entries[i].method = "POST" /\ entries[i].status = 201
    /\ ~visible

\* the operation of entry i starts in this step
Starts(i) == Len(order') = Len(order) + 1 /\ order'[Len(order')] = i

\* every entry whose method comes earlier in DELETE, POST, PUT, GET has completed
EarlierCompleted(i) ==
    \A j \in DOMAIN entries :
        methodMap(entries[j].method) < methodMap(entries[i].method) => j \in completed

\* C5 as stated: in every bundle, at any batch concurrency, no entry's
\* operation starts before every entry of an earlier method has completed
C5_MethodOrderAlways ==
    [][\A i \in DOMAIN entries : Starts(i) => EarlierCompleted(i)]_vars

\* C5, amended: in a bundle that is executed serially (a transaction, a batch
\* with BatchConcurrency 1, a bundle of one entry) no entry's operation
\* starts before every entry of an earlier method has completed
C5_MethodOrderSerial ==
    [][\A i \in DOMAIN entries :
          (bloc.concurrency = 1 /\ Starts(i)) => EarlierCompleted(i)]_vars

\* a bundle that came as PUT, DELETE and was executed serially as DELETE, PUT
C5_Witness ==
    /\ bloc.concurrency = 1
    /\ Len(bundle.entry) = 2 /\ Len(entries) = 2
    /\ bundle.entry[1].method = "PUT" /\ bundle.entry[2].method = "DELETE"
    /\ entries[1].method = "DELETE" /\ entries[2].method = "PUT"
    /\ order = <<1, 2>> /\ completed = {1, 2}
    /\ entries[1].status = 204 /\ entries[2].status \in {200, 201}

\* the goroutine that executes entry i
Runner(i) == IF bloc.concurrency = 1 THEN Handler ELSE Goroutine(i)

\* postInner has the answer of session.Get for the If-Match PUT at idx
IfMatchAnswered == bpc = "ifmatch_get" /\ bpc' # "ifmatch_get"

\* C11: a PUT entry with If-Match whose target is missing is answered 404,
\* one whose target has another version is answered 409, and an entry so
\* answered never reaches the store
C11_IfMatchStaged ==
    [][/\ (IfMatchAnswered /\ res[Handler].err \in {"NotFound", "Deleted"}) =>
              /\ bpc' = "ifmatch"
              /\ entries'[bloc.idx].status = 404 /\ ~entries'[bloc.idx].resource
       /\ (IfMatchAnswered /\ res[Handler].err = ""
              /\ VersionOf(res[Handler].doc) # entries[bloc.idx].cond) =>
              /\ bpc' = "ifmatch"
              /\ entries'[bloc.idx].status = 409 /\ ~entries'[bloc.idx].resource
       /\ \A i \in DOMAIN entries :
              (Starts(i) /\ entries[i].cond # NoCond /\ entries[i].status \in {404, 409}) =>
                  op'[Runner(i)].kind = "Handled" /\ pc'[Runner(i)] = "done"]_vars

\* C12: in a batch an error of one entry keeps no other entry from being
\* executed: the bundle is answered 200 and every entry has its response
C12_BatchContinues ==
    (bpc = "done" /\ bundle.type = "batch" /\ bundle.prov = "") =>
        /\ reply = SendReply(200, "batch-response")
        /\ completed = DOMAIN entries
        /\ \A i \in DOMAIN entries : entries[i].status # NoResponse

\* the session call of entry i was the last to run and returned an error
WriteFailed(i) ==
    /\ order # <<>> /\ order[Len(order)] = i /\ i \in completed
    /\ pc[Handler] = "done"
    /\ EntryError(op[Handler].kind, res[Handler]) # ""

\* the entries that failed, by a staged error status or by a write error
Failing == {i \in DOMAIN entries : HasOutcome(entries[i]) \/ WriteFailed(i)}

\* C13: a failed transaction is answered with the outcome of the earliest
\* failing entry in execution order
C13_EarliestOutcome ==
    (bpc = "done" /\ bundle.type = "transaction" /\ Failing # {}) =>
        LET first == CHOOSE i \in Failing : \A j \in Failing : i <= j
            err == EntryError(op[Handler].kind, res[Handler])
        IN reply = IF HasOutcome(entries[first])
                   THEN SendReply(entries[first].status, "outcome")
                   ELSE Failure(ErrorToOpOutcome(err), err)

\* the attempts after the first that Post has started for the bundle
Retries ==
    (IF bundle.type = "transaction" THEN TransactionAttempts ELSE 1) - bloc.attemptsLeft - 1

\* Post starts a further attempt
TriesAgain == bpc = "post" /\ bpc' = "inner"

ConditionalCreate(i) == entries[i].method = "POST" /\ entries[i].query # ""

\* the entry at i has just been executed, with no database failure so far
Executed(i) == i \in completed' \ completed /\ faults = MaxFaults

\* C15: a POST entry with If-None-Exist is given 201, 200 or 412 by the
\* number of resources its condition matches (none, one, more); once it has
\* been executed it answers with that status: 201 with one new resource
\* stored, 200 with the existing resource, 412 with an outcome, and in the
\* last two cases its execution writes nothing
C15_ConditionalCreate ==
    [][\A i \in DOMAIN entries :
          /\ (bpc = "pass1" /\ bloc.idx = i /\ bloc'.idx = i + 1 /\ ConditionalCreate(i)) =>
                LET n == Cardinality(FindIDs(DbCur(Handler), entries[i].query))
                IN entries'[i].createStatus = IF n = 0 THEN 201 ELSE IF n = 1 THEN 200 ELSE 412
          /\ (ConditionalCreate(i) /\ Executed(i)) =>
                LET status == entries[i].createStatus
                IN /\ entries'[i].status = status
                   /\ status = 201 => DbCur(Handler)[entries[i].id] # NoDoc
                   /\ status = 200 => entries'[i].resource
                   /\ status = 412 => entries'[i].outcome
          /\ (ConditionalCreate(i) /\ Starts(i) /\ entries[i].createStatus # 201) =>
                op'[Runner(i)].kind \in {"GetExisting", "Post412"}]_vars

\* pass 1 of postInner deals with the conditional PUT at idx, whose query
\* matches more than one resource
AmbiguousUpdate ==
    /\ bpc = "pass1" /\ bpc' # "pass1" /\ bloc.idx \in DOMAIN entries
    /\ entries[bloc.idx].method = "PUT" /\ isConditional(entries[bloc.idx])
    /\ Cardinality(FindIDs(DbCur(Handler), entries[bloc.idx].query)) > 1

\* C16: a conditional update whose query matches more than one resource
\* fails with status 412, as a request of its own and as a PUT entry of a
\* bundle, and changes neither collection
C16_MultipleMatches412 ==
    [][/\ AmbiguousUpdate =>
             /\ reply'.kind = "error" /\ reply'.status = 412
             /\ cur' = cur /\ prev' = prev /\ tx' = tx
       /\ \A p \in Clients :
             (/\ pc[p] = "cput_find" /\ pc'[p] # "cput_find"
              /\ Cardinality(FindIDs(DbCur(p), op[p].query)) > 1) =>
                /\ res'[p].status = 412
                /\ cur' = cur /\ prev' = prev]_vars

\* p's Delete removes the current document and returns without error
Deletes(p) ==
    /\ op[p].kind = "Delete" /\ pc[p] = "del_one" /\ pc'[p] = "done"
    /\ res'[p].err = ""

\* C17: with history enabled, a successful Delete(id) of a resource whose
\* current version is v (0 without meta.versionId) leaves no current document
\* for id, the body it removed archived under (id, v), a deletion record
\* under (id, v+1), and returns v+1 as the new versionId
C17_DeletePostcondition ==
    [][\A p \in Clients :
          (Deletes(p) /\ enableHistory) =>
             LET i == op[p].id
                 old == cur[i]
                 v == Atoi(VersionOf(old))
             IN /\ cur'[i] = NoDoc
                /\ \E r \in prev' : r.key = VermongoKey(i, v) /\ r.doc.body = old.body
                /\ \E r \in prev' : r.key = DeletionKey(i, v + 1)
                /\ res'[p].newVersionId = Itoa(v + 1)]_vars

\* p's Get returns, and no other request touched the id between its reads
GetReturns(p) ==
    /\ op[p].kind = "Get" /\ pc[p] \in {"get", "get_prev"} /\ pc'[p] = "done"
    /\ seen[p] = {}

\* a deletion record of id i is stored
Tombstone(i) == \E r \in prev : r.key.id = i /\ r.key.deleted

HistoryReturns(p) ==
    /\ op[p].kind = "History" /\ pc[p] = "hist_prev" /\ pc'[p] = "done"
    /\ seen[p] = {}
    /\ \A q \in Clients \ {p} : pc[q] \in {"idle", "done"}

\* the entries es, from position first + 1 on, are the records recs, each
\* once, none before a record of a greater version
NewestFirst(es, first, recs) ==
    \E s \in [1..Cardinality(recs) -> recs] :
        /\ \A a, b \in DOMAIN s : a # b => s[a] # s[b]
        /\ \A a, b \in DOMAIN s : a < b => s[a].key.version >= s[b].key.version
        /\ \A k \in DOMAIN s :
              IF s[k].key.deleted
              THEN es[first + k].resource = NoDoc
              ELSE es[first + k].resource = s[k].doc

\* C19: with history kept, History(T, id) of an id that has a current or a
\* previous version returns the current version first, then every
\* previous-version record, newest first; the last entry's method is POST,
\* total is the number of entries, and every accepted deletion of the id
\* appears as exactly one entry with method DELETE and no resource
C19_History ==
    [][\A p \in Clients :
          (HistoryReturns(p) /\ enableHistory) =>
             LET i == op[p].id
                 es == loc'[p].entryList
                 recs == {r \in prev : r.key.id = i}
                 first == IF cur[i] = NoDoc THEN 0 ELSE 1
             IN (first = 1 \/ recs # {}) =>
                   /\ res'[p].err = ""
                   /\ loc'[p].totalDocs = Len(es)
                   /\ Len(es) = first + Cardinality(recs)
                   /\ first = 1 => es[1].resource = cur[i]
                   /\ NewestFirst(es, first, recs)
                   /\ es[Len(es)].method = "POST"
                   /\ Cardinality({k \in DOMAIN es : es[k].method = "DELETE"
                                                      /\ es[k].resource = NoDoc})
                         = accepted[i].dels]_vars

\* p's ConditionalDelete returns without error
ConditionalDeleteReturns(p) ==
    /\ op[p].kind = "ConditionalDelete" /\ pc[p] = "cd_delmany" /\ pc'[p] = "done"
    /\ res'[p].err = ""

\* C20: when ConditionalDelete(query) returns successfully, every resource
\* that matched the query when the ids were looked up is gone from the
\* current collection, however many there were, and the call has removed no
\* resource that did not match
C20_ConditionalDeleteAll ==
    [][\A p \in Clients :
          ConditionalDeleteReturns(p) =>
             \A i \in Ids :
                /\ i \in loc[p].matching => cur'[i] = NoDoc
                /\ i \notin loc[p].matching => cur'[i] = cur[i]]_vars

\* the entry at i of the answered bundle was written to the store
Written(i) ==
    \/ entries[i].method = "PUT"
    \/ entries[i].method = "POST" /\ entries[i].createStatus = 201

\* what the entry at i wrote is the current document of its id: no later
\* entry of the bundle wrote the same id
Stored(i) ==
    /\ Written(i)
    /\ \A k \in DOMAIN entries : (k > i /\ Written(k)) => entries[k].id # entries[i].id

\* the entry at j was assigned an id: a fresh one, or that of the resource a
\* conditional create or a conditional update found
Assigned(j) ==
    \/ entries[j].method = "POST" /\ entries[j].createStatus \in {200, 201}
    \/ entries[j].method = "PUT" /\ entries[j].query # ""

\* C21: after a transaction bundle has been processed, a written entry's
\* reference whose text is the fullUrl of an entry that was assigned an id
\* is stored as Type/id of that entry
C21_ReferencesRewritten ==
    (bpc = "done" /\ bundle.type = "transaction" /\ TransactionResponse) =>
        \A i, j \in DOMAIN entries :
            (Stored(i) /\ Assigned(j) /\ Reference(entries[i].body) = entries[j].fullUrl) =>
                Reference(cur[entries[i].id].body) = TypeId(entries[j].id)

\* a transaction stored a resource that referred to another entry, one
\* whose id is that of a resource its conditional create found
C21_Witness ==
    /\ bpc = "done" /\ bundle.type = "transaction" /\ TransactionResponse
    /\ \E i, j \in DOMAIN entries :
          /\ i # j /\ Stored(i) /\ Assigned(j) /\ entries[j].createStatus = 200
          /\ Reference(entries[i].body) = entries[j].fullUrl
          /\ Reference(cur[entries[i].id].body) = TypeId(entries[j].id)

\* the commit of a transaction whose X-Provenance header was stored
StoresProvenance == bpc = "commit" /\ provenances' = provenances + 1

\* the references of the stored Provenance's target
Targets == {tx.target[k] : k \in DOMAIN tx.target}

\* C22: after a successful transaction that carried X-Provenance, the target
\* of the stored Provenance refers to every resource the transaction wrote
\* and to nothing that it did not write
C22_ProvenanceTargets ==
    [][StoresProvenance =>
          Targets = {TypeId(entries[i].id) : i \in {i \in DOMAIN entries : Written(i)}}]_vars

\* Finish returned
FinishReturns == bpc = "finish" /\ bpc' = "post"

InFlight == {i \in DOMAIN gpc : gpc[i] = "run"}

C25_MutualExclusion ==
    \A r1, r2 \in MutexRequests :
        (/\ r1 # r2
         /\ mx.header[r1].mutexName # ""
         /\ mx.header[r1].mutexName = mx.header[r2].mutexName)
        => ~(mx.at[r1] = "handler" /\ mx.at[r2] = "handler")

\* results remain beyond the page that was answered
ResultsRemain == pg.total > offsetOf(pg.offset) + countOf(pg.count)

\* C26: with totals counted or not, a search page carries a next link
\* exactly when results remain beyond the page
C26_NextIffResultsRemain ==
    pg.at = "answered" => (pg.links.next.present <=> ResultsRemain)

\* ceil(total / count)
Ceil(total, count) == (total + count - 1) \div count

\* the walk from the first link along the next links has ended on a page
\* without next link
WalkEnded == pg.at = "answered" /\ pg.steps >= 1 /\ ~pg.links.next.present

\* C27: with totals counted, following next from the first link ends on
\* the page the last link points to, after ceil(total / count) pages
C27_NextReachesLast ==
    (WalkEnded /\ pg.countTotalResults) =>
        /\ pg.links.self.offset = pg.links.last.offset
        /\ pg.steps = Ceil(pg.total, countOf(pg.count))

\* the ReplaceOne of p's Put succeeds: the Put takes effect
PutTakesEffect(p) == pc[p] = "put_write" /\ pc'[p] = "done" /\ res'[p].err = ""

C29_CreatedNew ==
    [][\A p \in Clients :
          PutTakesEffect(p) =>
              /\ res'[p].createdNew <=> cur[op[p].id] = NoDoc
              /\ res'[p].status = IF cur[op[p].id] = NoDoc THEN 201 ELSE 200]_vars

\* C30: a transaction bundle is answered with a 200 transaction-response
\* only if the commit of its transaction succeeded
C30_ResponseOnlyAfterCommit ==
    (bpc = "done" /\ bundle.type = "transaction" /\ TransactionResponse) =>
        tx.server = "committed"

\* the session call of entry i is under way on p
Running(p, i) ==
    \/ p = Handler /\ bpc = "serial_run" /\ bloc.idx = i
    \/ p = Goroutine(i) /\ bpc = "wait" /\ gpc[i] = "run"

\* C31: the Put of a bundle PUT entry with If-Match takes effect only while
\* the current document of the id still has the If-Match version; an update
\* by another request after the entry's If-Match check is not overwritten
C31_IfMatchHoldsAtWrite ==
    [][\A p \in BundleProcs, i \in DOMAIN entries :
          (/\ Running(p, i) /\ entries[i].method = "PUT" /\ entries[i].cond # NoCond
           /\ PutTakesEffect(p)) =>
              /\ cur[op[p].id] # NoDoc
              /\ VersionOf(cur[op[p].id]) = entries[i].cond]_vars

\* the DeleteOne of p's Delete removes a document
DeleteTakesEffect(p) == pc[p] = "del_one" /\ pc'[p] = "done" /\ res'[p].err = ""

\* C32: with history enabled a Delete removes the current document only if
\* it is still the document the Delete archived; a document that a
\* concurrent Put stored after the archival step is not removed
C32_DeleteRemovesArchived ==
    [][\A p \in Clients :
          (enableHistory /\ DeleteTakesEffect(p)) =>
              cur[op[p].id] = loc[p].currentDoc]_vars

\* ------------------------------------------------- conditional creates
CreateOps == 2               \* conditional creates the clients issue

\* the If-None-Exist queries of the creates
CreateQueries == {"x"}

\* CreateHandler with If-None-Exist (resource_controller.go:195-200):
\* POST /T, up to ConditionalPost's first round trip
ConditionalCreateHandler(p) ==
    /\ \E q \in CreateQueries, b \in Bodies :
        Begin(p, [kind |-> "ConditionalPost", id |-> "", cond |-> NoCond, body |-> b,
                  query |-> q, no |-> 0])
    /\ pc' = [pc EXCEPT ![p] = "cpost_find"]
    /\ res' = [res EXCEPT ![p] = NoRes]
    /\ UNCHANGED <<enableHistory, cur, prev, tx, visible, superseded, accepted, usedIds, bvars>>

\* ConditionalPost, lines 409-429: FindIDs, then PostWithID under a new id
\* (no match), Get of the match (one), or 412 (several); no request of
\* these names an id, so any id may be the new one
ConditionalPost(p) ==
    /\ pc[p] = "cpost_find"
    /\ LET existingIds == FindIDs(DbCur(p), op[p].query)
       IN IF existingIds = {}
          THEN /\ FreshFrom(Ids) # {}
               /\ op' = [op EXCEPT ![p].id = ObjectIDFrom(Ids)]
               /\ usedIds' = usedIds \cup {ObjectIDFrom(Ids)}
               /\ pc' = [pc EXCEPT ![p] = "post_insert"]
               /\ UNCHANGED res
          ELSE IF Cardinality(existingIds) = 1
          THEN /\ op' = [op EXCEPT ![p].id = CHOOSE i \in existingIds : TRUE]
               /\ pc' = [pc EXCEPT ![p] = "get"]
               /\ UNCHANGED <<res, usedIds>>
          ELSE /\ Return(p, [NoRes EXCEPT !.status = 412])
               /\ UNCHANGED <<op, usedIds>>
    /\ Touch(p, Ids)
    /\ UNCHANGED <<enableHistory, cur, prev, tx, visible, loc, opsLeft, raced, superseded,
                   accepted, bvars>>

\* POST T with If-None-Exist x, with a resource that matches x or does not
CreateEntries == {Entry("POST", "", NoCond, q, b) : q \in CreateQueries, b \in Bodies}
CreateBundles == UNION {[1..n -> CreateEntries] : n \in 1..MaxEntries}

PostCreates == Receive({"transaction", "batch"}, CreateBundles)

InitCreate ==
    /\ enableHistory = TRUE
    /\ batchConcurrency \in 1..MaxConcurrency
    /\ faults = 0
    /\ InitStore({"empty", "one"}, CreateOps)
    /\ InitBatch
    /\ InitAside

NextCreate ==
    \/ PostCreates
    \/ PostInner
    \/ ResolveIDsFrom(Ids)
    \/ ProcessReferences
    \/ IfMatchGet
    \/ Proceed
    \/ SerialBegin
    \/ SerialEnd
    \/ \E i \in 1..MaxEntries : GoAcquire(i)
    \/ \E i \in 1..MaxEntries : GoRelease(i)
    \/ Wait
    \/ Outcome
    \/ ProcessProvenanceHeader
    \/ CommmitIfTransaction
    \/ Reply
    \/ Finish
    \/ Retry
    \/ \E p \in Clients : ConditionalCreateHandler(p)
    \/ \E p \in Clients : ConditionalPost(p)
    \/ \E p \in BundleProcs \cup Clients :
        \/ PostWithID(p)
        \/ GetCurrent(p)

SpecCreate == InitCreate /\ [][NextCreate]_vars

\* C33: conditional creates with one If-None-Exist condition, run
\* concurrently or as POST entries of one bundle while at most one stored
\* resource matches the condition, never leave two resources that match
\* it: at most one is created, and a create answered 200 names a stored
\* resource that matches
C33_ConditionalCreateOnce ==
    /\ \A q \in CreateQueries : Cardinality(Matching(cur, q)) <= 1
    /\ \A p \in Clients :
          (pc[p] = "done" /\ op[p].kind = "ConditionalPost" /\ res[p].status = 200) =>
              op[p].id \in Matching(cur, op[p].query)

\* ------------------------------------ a batch under any BatchConcurrency
\* batches of two or more entries
LiveBundles == UNION {[1..n -> ConcurrentEntries] : n \in 2..BatchEntries}

PostLive == Receive({"batch"}, LiveBundles)

\* the batchConcurrency flag is an int that nothing validates
\* (part_011:36, 122): 0 is a value it may have
InitBatchLive ==
    /\ enableHistory = TRUE
    /\ batchConcurrency \in 0..MaxConcurrency
    /\ faults = 0
    /\ InitStore({"one"}, 0)
    /\ InitBatch
    /\ InitAside

NextBatchLive ==
    \/ PostLive
    \/ PostInner
    \/ ResolveIDs
    \/ ProcessReferences
    \/ IfMatchGet
    \/ Proceed
    \/ SerialBegin
    \/ SerialEnd
    \/ \E i \in 1..BatchEntries : GoAcquire(i)
    \/ \E i \in 1..BatchEntries : GoRelease(i)
    \/ Wait
    \/ Outcome
    \/ Reply
    \/ Finish
    \/ Retry
    \/ \E p \in BundleProcs :
          \/ PutFindCurrent(p)
          \/ PutStorePrevious(p)
          \/ PutReplace(p)
          \/ GetCurrent(p)

\* the scheduler runs a goroutine that can take a step
SpecBatchLive == InitBatchLive /\ [][NextBatchLive]_vars /\ WF_vars(NextBatchLive)

\* C34: whatever the configured BatchConcurrency (0 or more), the
\* execution of a batch of two or more entries ends: every entry is
\* executed and the reply is sent
C34_BatchTerminates ==
    (bpc = "proceed") ~> (bpc = "done" /\ reply.kind = "reply" /\ completed = DOMAIN entries)

\* ------------------------------------------- requests that keep arriving
\* another request arrives with the headers of one that is done
Arrive(r) ==
    /\ mx.at[r] = "done" /\ mx.coordinator.at # "panic"
    /\ mx' = [mx EXCEPT !.at[r] = "arrived"]
    /\ UNCHANGED <<enableHistory, cur, prev, pc, op, loc, res, opsLeft, raced, superseded,
                   accepted, seen, usedIds, tx, visible, bvarsPost, pg, rs>>

NextMutexLive ==
    \/ \E r \in MutexRequests : Middleware(r)
    \/ \E r \in MutexRequests : Gate(r)
    \/ \E r \in MutexRequests : HandlerReturns(r)
    \/ \E r \in MutexRequests : Unlock(r)
    \/ \E r \in MutexRequests : Arrive(r)

\* the scheduler runs every goroutine that can take a step, and every
\* handler returns; nothing makes requests arrive
SpecMutexLive ==
    /\ InitMutex /\ [][NextMutexLive]_vars
    /\ \A r \in MutexRequests :
          /\ WF_vars(Middleware(r)) /\ WF_vars(Gate(r))
          /\ WF_vars(HandlerReturns(r)) /\ WF_vars(Unlock(r))

\* C35: a request that waits for a named mutex is eventually let through
\* to its handler, if every holder finishes, also when requests for the
\* same name keep arriving
C35_WaiterGranted ==
    \A r \in MutexRequests : (mx.at[r] = "locking") ~> (mx.at[r] = "handler")

\* the number of times the operation of entry i was started
Executions(i) == Cardinality({k \in DOMAIN order : order[k] = i})

\* C36: when a batch runs its entries concurrently, the reply is sent only
\* after every entry was executed exactly once and the goroutine of every
\* entry has returned from doRequest, finished its session and exited
C36_ReplyAfterWorkers ==
    (bundle.type = "batch" /\ bloc.concurrency > 1 /\ reply.kind = "reply") =>
        \A i \in DOMAIN entries :
            /\ Executions(i) = 1
            /\ i \in completed
            /\ gpc[i] = "exited" /\ pc[Goroutine(i)] = "done"
            /\ entries[i].status # NoResponse

\* a batch of three entries that ran two at a time has been answered
C36_Witness ==
    /\ bpc = "done" /\ reply.kind = "reply" /\ reply.status = 200
    /\ bloc.concurrency = 2 /\ Len(entries) = BatchEntries
    /\ \A i \in DOMAIN entries : Executions(i) = 1 /\ gpc[i] = "exited"

\* Post's loop goes round again: postInner starts the session and the
\* transaction of another attempt
StartsRetry ==
    /\ bpc = "inner" /\ bpc' # "inner"
    /\ bloc.attemptsLeft < TransactionAttempts /\ bundle.type = "transaction"

\* C37: when a retry of a transaction bundle starts its session and its
\* transaction, the transaction of the previous attempt is aborted and the
\* session of the previous attempt is ended: no two attempts of a request
\* have a transaction open at the same time
C37_AttemptsDoNotOverlap ==
    [][StartsRetry =>
          /\ ~tx.active /\ tx.server = "aborted" /\ tx.session = "ended"
          /\ tx'.active /\ tx'.server = "open" /\ tx'.session = "open"]_vars

\* the third attempt of a transaction is under way
C37_Witness ==
    /\ bundle.type = "transaction" /\ bloc.attemptsLeft = 0
    /\ tx.active /\ tx.server = "open" /\ tx.session = "open"
    /\ bpc = "serial_run"

\* Finish has run on the session of postInner, or was cut short by its panic
Finished == bpc \in {"post", "done", "panic"}

\* C40: a session obtained from StartSession is ended once Finish has run
\* on it, on every path of Finish, also when AbortTransaction fails; the
\* session of a goroutine is ended when the goroutine exits, and no session
\* that was not started is ended
C40_SessionEnded ==
    /\ Finished => tx.session = "ended"
    /\ tx.session = "ended" => (Finished \/ bpc = "inner")
    /\ \A i \in DOMAIN gpc : gpc[i] = "exited" => pc[Goroutine(i)] = "done"


\* ======================================================= the Resource envelope
\* models2.Resource (bundle.go, lines 98-116) of a Patient resource
EnvelopeBodies == {"x", "z>urn:a"}
EnvelopeMaps == {<<>>, MapTo(<<>>, "urn:a", "Patient/i1")}
EnvelopeVersions == 1..2
EnvelopeTimes == {"t1", "t2"}
Setters == {"SetId", "SetVersionId", "SetLastUpdated", "SetTransformReferencesMap",
            "SetWhatToEncrypt"}

\* encryptBSON, encryption.go lines 116-176: with PatientDetails set the
\* sensitive elements of a Patient leave the document for __gofhirEncryptedBSON
encryptBSON(doc, whatToEncrypt) == [doc EXCEPT !.encrypted = whatToEncrypt]

\* decryptBSON, encryption.go lines 178-250: the decrypted elements are
\* appended after the elements that had stayed in the document
decryptBSON(doc) ==
    [id |-> doc.id, versionId |-> doc.versionId, lastUpdated |-> doc.lastUpdated,
     body |-> doc.body, moved |-> doc.encrypted]

\* ConvertGoFhirBSONToJSON, convert_to_bson.go lines 409-425
ConvertGoFhirBSONToJSON(doc) == decryptBSON(doc)

\* Resource.GetBSON, bundle.go lines 314-345, without its assignment to cachedBson
GetBSON(r) ==
    LET bsonDoc == encryptBSON([encrypted |-> FALSE, id |-> r.jsonBytes.id,
                                versionId |-> r.jsonBytes.versionId,
                                lastUpdated |-> r.jsonBytes.lastUpdated,
                                body |-> ConvertJsonToGoFhirBSON(r.jsonBytes.body,
                                                                 r.transformReferencesMap)],
                               r.whatToEncrypt)
    IN [bsonDoc EXCEPT !.id = IF r.idChanged THEN r.id ELSE @,
                       !.versionId = IF r.versionIdChanged THEN r.versionId ELSE @,
                       !.lastUpdated = IF r.lastUpdatedChanged THEN r.lastUpdated ELSE @]

\* everything but the envelope
EnvelopeOnly ==
    UNCHANGED <<enableHistory, cur, prev, pc, op, loc, res, opsLeft, raced, superseded,
                accepted, seen, usedIds, tx, visible, bvarsPost, mx, pg>>

\* Resource.SetId, bundle.go lines 153-157
SetId(id) ==
    /\ rs.call # "none"
    /\ rs' = [rs EXCEPT !.id = id, !.idChanged = TRUE, !.cachedBson = NoBson, !.call = "SetId"]
    /\ EnvelopeOnly

\* Resource.SetVersionId, bundle.go lines 158-162
SetVersionId(versionId) ==
    /\ rs.call # "none"
    /\ rs' = [rs EXCEPT !.versionId = Itoa(versionId), !.versionIdChanged = TRUE,
                        !.cachedBson = NoBson, !.call = "SetVersionId"]
    /\ EnvelopeOnly

\* Resource.SetLastUpdated, bundle.go lines 163-167
SetLastUpdated(lastUpdated) ==
    /\ rs.call # "none"
    /\ rs' = [rs EXCEPT !.lastUpdated = lastUpdated, !.lastUpdatedChanged = TRUE,
                        !.cachedBson = NoBson, !.call = "SetLastUpdated"]
    /\ EnvelopeOnly

\* Resource.SetTransformReferencesMap, bundle.go lines 173-176
SetTransformReferencesMap(transformReferencesMap) ==
    /\ rs.call # "none"
    /\ rs' = [rs EXCEPT !.transformReferencesMap = transformReferencesMap,
                        !.cachedBson = NoBson, !.call = "SetTransformReferencesMap"]
    /\ EnvelopeOnly

\* Resource.SetWhatToEncrypt, bundle.go lines 178-180: cachedBson is left as it is
SetWhatToEncrypt(whatToEncrypt) ==
    /\ rs.call # "none"
    /\ rs' = [rs EXCEPT !.whatToEncrypt = whatToEncrypt, !.call = "SetWhatToEncrypt"]
    /\ EnvelopeOnly

\* Resource.MarshalJSON, bundle.go lines 256-274
MarshalJSON ==
    /\ rs.call # "none"
    /\ LET cachedBson == IF rs.cachedBson = NoBson THEN GetBSON(rs) ELSE rs.cachedBson
       IN rs' = [rs EXCEPT !.cachedBson = cachedBson, !.call = "MarshalJSON",
                           !.json = ConvertGoFhirBSONToJSON(cachedBson)]
    /\ EnvelopeOnly

\* Resource.MarshalBSON, bundle.go lines 305-312: GetBSON converts anew and
\* keeps the document in cachedBson
MarshalBSON ==
    /\ rs.call # "none"
    /\ rs' = [rs EXCEPT !.cachedBson = GetBSON(rs), !.call = "MarshalBSON"]
    /\ EnvelopeOnly

\* NewResourceFromJsonBytes, bundle.go lines 427-480
InitEnvelope ==
    /\ enableHistory = TRUE
    /\ batchConcurrency = 1
    /\ faults = 0
    /\ InitStore({"empty"}, 0)
    /\ InitBatch
    /\ mx = NoMx
    /\ pg = NoPg
    /\ \E body \in EnvelopeBodies :
          rs = [NoRs EXCEPT !.jsonBytes = [id |-> "i1", versionId |-> "1", lastUpdated |-> "t0",
                                           body |-> body, moved |-> FALSE],
                            !.id = "i1", !.versionId = "1", !.lastUpdated = "t0",
                            !.call = "NewResourceFromJsonBytes"]

NextEnvelope ==
    \/ \E id \in Ids : SetId(id)
    \/ \E versionId \in EnvelopeVersions : SetVersionId(versionId)
    \/ \E lastUpdated \in EnvelopeTimes : SetLastUpdated(lastUpdated)
    \/ \E transformReferencesMap \in EnvelopeMaps :
          SetTransformReferencesMap(transformReferencesMap)
    \/ \E whatToEncrypt \in BOOLEAN : SetWhatToEncrypt(whatToEncrypt)
    \/ MarshalJSON
    \/ MarshalBSON

SpecEnvelope == InitEnvelope /\ [][NextEnvelope]_vars

\* C38: right after SetId, SetVersionId, SetLastUpdated,
\* SetTransformReferencesMap or SetWhatToEncrypt the envelope holds no cached
\* document, and what MarshalJSON returns is the serialisation of the
\* envelope's present id, version, lastUpdated, reference map and encryption
\* setting.
C38_SettersInvalidate ==
    /\ rs.call \in Setters => rs.cachedBson = NoBson
    /\ rs.call = "MarshalJSON" => rs.json = ConvertGoFhirBSONToJSON(GetBSON(rs))


\* r's deferred unlockRequest is taken by the coordinator
Unlocks(r) == mx.at[r] = "unlocking" /\ mx'.at[r] = "done"

\* C39: the coordinator never panics: every unlockRequest it takes names a
\* mutex that is in its table and a lockId that is among the mutex's locks;
\* a name leaves the table in the step that releases its last lockId and in
\* no other step, and no name stays in the table without a lockId.
C39_UnlockFindsItsLock ==
    [][/\ mx'.coordinator.at # "panic"
       /\ \A r \in MutexRequests :
             Unlocks(r) => /\ mx.header[r].mutexName \in DOMAIN mx.mutexes
                           /\ r \in mx.mutexes[mx.header[r].mutexName]
       /\ \A n \in DOMAIN mx.mutexes :
             (n \notin DOMAIN mx'.mutexes) <=>
                 \E r \in MutexRequests :
                     Unlocks(r) /\ mx.header[r].mutexName = n /\ mx.mutexes[n] = {r}
       /\ \A n \in DOMAIN mx'.mutexes : mx'.mutexes[n] # {}]_vars

\* two requests held the same mutex one after the other, both have unlocked,
\* and the name has left the table
C39_Witness ==
    \E r1, r2 \in MutexRequests :
        /\ r1 # r2
        /\ Locks(mx.header[r1]) /\ Locks(mx.header[r2])
        /\ mx.header[r1].mutexName = mx.header[r2].mutexName
        /\ mx.at[r1] = "done" /\ mx.at[r2] = "done"
        /\ mx.header[r1].mutexName \notin DOMAIN mx.mutexes
        /\ mx.coordinator.at = "select"

====
